---- MODULE Spec2Model ----
(***************************************************************************)
(* A model of formmap's reflective mapper (mapper.go: Mapper, MapToForm,   *)
(* mapStruct, mapField, mapFormInputData, mapSlice, convertValue,          *)
(* MapToFormWithOptions) and of its error lookup (valerr.go).              *)
(*                                                                         *)
(* Go values are modelled as records that carry their reflect.Type:        *)
(*   string    [type, s]          int/int64/Duration  [type, n]            *)
(*   bool      [type, b]          float64             [type, c]            *)
(*   struct    [type, fields]     slice               [type, isnil, elems] *)
(*   pointer   [type, isnil, target]   (target is <<v>> or <<>>)           *)
(* A float64 is a decimal with two fractional digits, held as the integer  *)
(* c = 100 * value.  A time.Duration is held in seconds instead of         *)
(* nanoseconds.  The invalid reflect.Value (reflect.ValueOf(nil)) is       *)
(* Invalid.                                                                *)
(***************************************************************************)
EXTENDS Integers, Sequences, FiniteSets, TLC

(***************************************************************************)
(* Bounds of the model.                                                    *)
(***************************************************************************)
\* longest slice of the domain and of the form
MaxLen == 2
\* how many RegisterFieldMapper / RegisterConverter / WithOptions calls a run makes
MaxSetup == 1

(***************************************************************************)
(* reflect.Type.  A type is named by its Go spelling (a string); Types     *)
(* gives each type of the program its kind, its Name() ("" for slice and   *)
(* pointer types) and its element type or fields.                          *)
(***************************************************************************)
Scalar(kind, name) == [kind |-> kind, name |-> name]
StructOf(name, fields) == [kind |-> "struct", name |-> name, fields |-> fields]
SliceOf(elem) == "[]" \o elem
PtrTo(elem) == "*" \o elem
\* reflect.StructField: PkgPath is "" exactly for an exported field
Field(name, type) == [name |-> name, pkgPath |-> "", type |-> type]
Unexported(name, type) == [name |-> name, pkgPath |-> "formmap", type |-> type]

T_string == "string"
T_int == "int"
T_int64 == "int64"
T_uint == "uint"
T_bool == "bool"
T_float64 == "float64"
T_float32 == "float32"
T_Duration == "time.Duration"
T_Time == "time.Time"
T_FormInputData == "formmap.FormInputData"

(***************************************************************************)
(* The caller's types: the records of the mapper's tests (TestDocument,    *)
(* TestMetadata, TestItem and their forms), with fields added for the      *)
(* cases the walker skips: an unexported field, a field the form lacks, a  *)
(* field whose kinds do not pair, a form-only field, and a pointer to a    *)
(* leaf.                                                                   *)
(***************************************************************************)
T_TestMetadata == "formmap.TestMetadata"
T_TestItem == "formmap.TestItem"
T_TestDocument == "formmap.TestDocument"
T_TestMetadataForm == "formmap.TestMetadataForm"
T_TestItemForm == "formmap.TestItemForm"
T_TestFormData == "formmap.TestFormData"
\* a caller's record of slices and its form, every form slice a slice of leaves
T_TestEvents == "formmap.TestEvents"
T_TestEventsForm == "formmap.TestEventsForm"

StructTypes ==
    (T_Time :>
        \* time.Time: a struct whose fields are all unexported
        StructOf("Time", << [name |-> "wall", pkgPath |-> "time", type |-> T_uint],
                            [name |-> "ext", pkgPath |-> "time", type |-> T_int64],
                            [name |-> "loc", pkgPath |-> "time", type |-> T_string] >>))
    @@ (T_FormInputData :>
        StructOf("FormInputData", << Field("Value", T_string), Field("Error", T_string) >>))
    @@ (T_TestMetadata :>
        StructOf("TestMetadata", << Field("Version", T_string), Field("Author", T_string) >>))
    @@ (T_TestItem :>
        StructOf("TestItem", << Field("ItemID", T_string), Field("Price", T_float64) >>))
    @@ (T_TestDocument :>
        StructOf("TestDocument",
                 << Field("Name", T_string), Field("Price", T_float64),
                    Field("Quantity", T_int), Field("IsActive", T_bool),
                    Field("CreatedAt", T_Time), Field("Duration", T_Duration),
                    Unexported("secret", T_string), Field("Internal", T_int),
                    Field("Notes", T_string), Field("Tags", SliceOf(T_string)),
                    Field("Metadata", T_TestMetadata), Field("Items", SliceOf(T_TestItem)),
                    Field("OptionalPtr", PtrTo(T_string)),
                    Field("NestedPtr", PtrTo(T_TestMetadata)),
                    Field("LeafPtr", PtrTo(T_string)) >>))
    @@ (T_TestMetadataForm :>
        StructOf("TestMetadataForm",
                 << Field("Version", T_FormInputData), Field("Author", T_FormInputData),
                    Field("Hint", T_FormInputData) >>))
    @@ (T_TestItemForm :>
        StructOf("TestItemForm",
                 << Field("ItemID", T_FormInputData), Field("Price", T_FormInputData),
                    Field("Hint", T_FormInputData) >>))
    @@ (T_TestFormData :>
        StructOf("TestFormData",
                 << Field("Name", T_FormInputData), Field("Price", T_FormInputData),
                    Field("Quantity", T_FormInputData), Field("IsActive", T_FormInputData),
                    Field("CreatedAt", T_FormInputData), Field("Duration", T_FormInputData),
                    Field("Notes", SliceOf(T_FormInputData)),
                    Field("Tags", SliceOf(T_FormInputData)),
                    Field("Metadata", T_TestMetadataForm),
                    Field("Items", SliceOf(T_TestItemForm)),
                    Field("OptionalPtr", T_FormInputData),
                    Field("NestedPtr", PtrTo(T_TestMetadataForm)),
                    Field("LeafPtr", PtrTo(T_FormInputData)),
                    Field("Extra", T_FormInputData) >>))
    @@ (T_TestEvents :>
        StructOf("TestEvents",
                 << Field("Labels", SliceOf(T_string)), Field("Counts", SliceOf(T_int)),
                    Field("Dates", SliceOf(T_Time)), Field("Stops", SliceOf(T_TestItem)) >>))
    @@ (T_TestEventsForm :>
        StructOf("TestEventsForm",
                 << Field("Labels", SliceOf(T_FormInputData)),
                    Field("Counts", SliceOf(T_FormInputData)),
                    Field("Dates", SliceOf(T_FormInputData)),
                    Field("Stops", SliceOf(T_FormInputData)) >>))

ScalarTypes ==
    (T_string :> Scalar("string", "string")) @@ (T_int :> Scalar("int", "int"))
        @@ (T_int64 :> Scalar("int64", "int64")) @@ (T_uint :> Scalar("uint", "uint"))
        @@ (T_bool :> Scalar("bool", "bool")) @@ (T_float64 :> Scalar("float64", "float64"))
        @@ (T_float32 :> Scalar("float32", "float32"))
        @@ (T_Duration :> Scalar("int64", "Duration"))
        @@ ("invalid" :> Scalar("invalid", ""))

SliceElems == { T_string, T_int, T_Time, T_FormInputData, T_TestItem, T_TestItemForm }
PtrElems ==
    { T_string, T_int, T_FormInputData, T_TestMetadata, T_TestMetadataForm,
      T_TestDocument, T_TestFormData, T_TestEvents, T_TestEventsForm }

Types ==
    ScalarTypes @@ StructTypes
        @@ [t \in { SliceOf(e) : e \in SliceElems } |->
               [kind |-> "slice", name |-> "",
                elem |-> CHOOSE e \in SliceElems : SliceOf(e) = t]]
        @@ [t \in { PtrTo(e) : e \in PtrElems } |->
               [kind |-> "ptr", name |-> "",
                elem |-> CHOOSE e \in PtrElems : PtrTo(e) = t]]

(***************************************************************************)
(* reflect.Value                                                           *)
(***************************************************************************)
Invalid == [type |-> "invalid"]
StrV(s) == [type |-> T_string, s |-> s]
IntV(n) == [type |-> T_int, n |-> n]
UintV(n) == [type |-> T_uint, n |-> n]
Int64V(n) == [type |-> T_int64, n |-> n]
BoolV(b) == [type |-> T_bool, b |-> b]
FloatV(c) == [type |-> T_float64, c |-> c]
DurationV(secs) == [type |-> T_Duration, n |-> secs]
TimeV(wall, loc) == [type |-> T_Time, fields |-> << UintV(wall), Int64V(0), StrV(loc) >>]
Struct(t, fields) == [type |-> t, fields |-> fields]
Slice(elemT, elems) == [type |-> SliceOf(elemT), isnil |-> FALSE, elems |-> elems]
NilSlice(elemT) == [type |-> SliceOf(elemT), isnil |-> TRUE, elems |-> << >>]
Ptr(v) == [type |-> PtrTo(v.type), isnil |-> FALSE, target |-> << v >>]
NilPtr(elemT) == [type |-> PtrTo(elemT), isnil |-> TRUE, target |-> << >>]
FormInputData(value, error) == Struct(T_FormInputData, << StrV(value), StrV(error) >>)

Kind(v) == Types[v.type].kind
Elem(v) == v.target[1]

IntKinds == {"int", "int8", "int16", "int32", "int64"}
UintKinds == {"uint", "uint8", "uint16", "uint32", "uint64"}
FloatKinds == {"float32", "float64"}

RECURSIVE Zero(_)
\* reflect.Zero / reflect.New(t).Elem(): the zero value of a type
Zero(t) ==
    LET kind == Types[t].kind
    IN  CASE kind = "string" -> [type |-> t, s |-> ""]
          [] kind \in IntKinds \cup UintKinds -> [type |-> t, n |-> 0]
          [] kind = "bool" -> [type |-> t, b |-> FALSE]
          [] kind \in FloatKinds -> [type |-> t, c |-> 0]
          [] kind = "struct" ->
                [type |-> t,
                 fields |-> [i \in 1..Len(Types[t].fields) |-> Zero(Types[t].fields[i].type)]]
          [] kind = "slice" -> [type |-> t, isnil |-> TRUE, elems |-> << >>]
          [] kind = "ptr" -> [type |-> t, isnil |-> TRUE, target |-> << >>]
          [] OTHER -> Invalid

RECURSIVE IsZero(_)
\* reflect.Value.IsZero
IsZero(v) ==
    CASE Kind(v) = "string" -> v.s = ""
      [] Kind(v) \in IntKinds \cup UintKinds -> v.n = 0
      [] Kind(v) = "bool" -> ~v.b
      [] Kind(v) \in FloatKinds -> v.c = 0
      [] Kind(v) = "struct" -> \A i \in 1..Len(v.fields) : IsZero(v.fields[i])
      [] Kind(v) \in {"slice", "ptr"} -> v.isnil
      [] OTHER -> FALSE

(***************************************************************************)
(* strconv and fmt                                                         *)
(***************************************************************************)
Digit == << "0", "1", "2", "3", "4", "5", "6", "7", "8", "9" >>

RECURSIVE FormatUint(_)
\* strconv.FormatUint(n, 10)
FormatUint(n) ==
    IF n < 10 THEN Digit[n + 1] ELSE FormatUint(n \div 10) \o Digit[(n % 10) + 1]

\* strconv.FormatInt(n, 10) and strconv.Itoa
FormatInt(n) == IF n < 0 THEN "-" \o FormatUint(-n) ELSE FormatUint(n)

\* strconv.FormatFloat(f, 'f', -1, 64) of the decimal c / 100: the shortest
\* digits that give the value back, no exponent
FormatFloat(c) ==
    LET a == IF c < 0 THEN -c ELSE c
        whole == FormatUint(a \div 100)
        frac == a % 100
        digits == IF frac = 0 THEN whole
                  ELSE IF frac % 10 = 0 THEN whole \o "." \o Digit[(frac \div 10) + 1]
                  ELSE whole \o "." \o Digit[(frac \div 10) + 1] \o Digit[(frac % 10) + 1]
    IN  IF c < 0 THEN "-" \o digits ELSE digits

\* strconv.FormatBool
FormatBool(b) == IF b THEN "true" ELSE "false"

\* A faulty conversion: the minutes rounded to the nearest whole number.
MinutesRounded(secs) ==
    IF secs < 0 THEN -((-secs + 30) \div 60) ELSE (secs + 30) \div 60

\* int(d.Minutes()): the float64 number of minutes, truncated toward zero
Minutes(secs) == IF secs < 0 THEN -((-secs) \div 60) ELSE secs \div 60

\* time.Duration.String() of a whole number of seconds
DurationString(secs) ==
    LET a == IF secs < 0 THEN -secs ELSE secs
        h == a \div 3600
        m == (a % 3600) \div 60
        s == a % 60
        txt == IF h > 0 THEN FormatUint(h) \o "h" \o FormatUint(m) \o "m" \o FormatUint(s) \o "s"
               ELSE IF m > 0 THEN FormatUint(m) \o "m" \o FormatUint(s) \o "s"
               ELSE FormatUint(s) \o "s"
    IN  IF secs < 0 THEN "-" \o txt ELSE txt

\* time.Time.IsZero: the instant is January 1, year 1, 00:00:00 UTC (wall 0 here),
\* whatever the location
TimeIsZero(t) == t.fields[1].n = 0

TwoDigits(n) == Digit[(n \div 10) + 1] \o Digit[(n % 10) + 1]

\* t.Format(time.RFC3339): instant wall = k > 0 is 2024-01-01T12:00:00Z plus k - 1
\* seconds (k <= 60), rendered in UTC
FormatRFC3339(t) == "2024-01-01T12:00:" \o TwoDigits((t.fields[1].n - 1) % 60) \o "Z"

RECURSIVE Sprint(_)
RECURSIVE SprintSeq(_, _)
\* fmt.Sprint of a sequence of operands, blank-separated
SprintSeq(vs, i) ==
    IF i > Len(vs) THEN ""
    ELSE (IF i > 1 THEN " " ELSE "") \o Sprint(vs[i]) \o SprintSeq(vs, i + 1)

\* fmt.Sprint(v.Interface()) with the %v verb
Sprint(v) ==
    CASE Kind(v) = "string" -> v.s
      [] Kind(v) \in IntKinds -> FormatInt(v.n)
      [] Kind(v) \in UintKinds -> FormatUint(v.n)
      [] Kind(v) \in FloatKinds -> FormatFloat(v.c)
      [] Kind(v) = "bool" -> FormatBool(v.b)
      [] Kind(v) = "struct" -> "{" \o SprintSeq(v.fields, 1) \o "}"
      [] Kind(v) = "slice" -> "[" \o SprintSeq(v.elems, 1) \o "]"
      [] Kind(v) = "ptr" -> IF v.isnil THEN "<nil>" ELSE "0xc000012345"
      [] OTHER -> "<invalid reflect.Value>"

(***************************************************************************)
(* valerr.go: the error lookup                                             *)
(***************************************************************************)
ValidationField(tag, param, field) == [Tag |-> tag, Param |-> param, Field |-> field]

\* the blank-free pieces of the params the model uses, in order
Words(param) ==
    CASE param = "red green" -> << "red", "green" >>
      [] param = "red green blue" -> << "red", "green", "blue" >>
      [] param = "admin user guest" -> << "admin", "user", "guest" >>
      [] OTHER -> << param >>

\* strings.Join(words, sep)
RECURSIVE Join(_, _)
Join(words, sep) ==
    IF Len(words) = 0 THEN ""
    ELSE IF Len(words) = 1 THEN words[1]
    ELSE words[1] \o sep \o Join(Tail(words), sep)

\* strings.ReplaceAll(param, " ", ", "): the pieces between the blanks, joined
\* again by ", "
ReplaceAllBlanks(param) == Join(Words(param), ", ")

\* A faulty Msg: every tag gets the fallback text, and never the parameter.
MsgTagOnly(v) ==
    IF v.Tag = "" THEN "" ELSE "Validation failed on '" \o v.Tag \o "' tag"

\* ValidationField.Msg
Msg(v) ==
    IF v.Tag = "" THEN ""
    ELSE CASE v.Tag = "required" -> "This field is required"
           [] v.Tag = "email" -> "Invalid email address"
           [] v.Tag \in {"url", "http_url"} -> "This field must be a valid URL"
           [] v.Tag = "gte" -> "Value must be at least " \o v.Param
           [] v.Tag = "lte" -> "Value must be at most " \o v.Param
           [] v.Tag = "gt" -> "Value must be greater than " \o v.Param
           [] v.Tag = "lt" -> "Value must be less than " \o v.Param
           [] v.Tag = "min" -> "Minimum length is " \o v.Param
           [] v.Tag = "max" -> "Maximum length is " \o v.Param
           [] v.Tag = "len" -> "Length must be exactly " \o v.Param
           [] v.Tag = "eq" -> "Value must be equal to " \o v.Param
           [] v.Tag = "ne" -> "Value must not be equal to " \o v.Param
           [] v.Tag = "eqfield" -> "This field must match " \o v.Param
           [] v.Tag = "nefield" -> "This field must not match " \o v.Param
           [] v.Tag = "not_blank" -> "This field cannot be empty"
           [] v.Tag = "alphanum" -> "Only alphanumeric characters are allowed"
           [] v.Tag = "alpha" -> "Only alphabetic characters are allowed"
           [] v.Tag = "numeric" -> "Only numeric characters are allowed"
           [] v.Tag = "alphanum_with_underscore" ->
                 "Only alphanumeric characters and underscores are allowed"
           [] v.Tag = "mongodb" -> "Invalid MongoDB ObjectID"
           [] v.Tag = "uuid" -> "Invalid UUID"
           [] v.Tag = "oneof" -> "Must be one of: " \o ReplaceAllBlanks(v.Param)
           [] v.Tag \in {"gtcsfield", "gtfield"} -> "Must be greater than " \o v.Param
           [] v.Tag \in {"ltcsfield", "ltfield"} -> "Must be less than " \o v.Param
           [] v.Tag = "contains" -> "Must contain '" \o v.Param \o "'"
           [] v.Tag = "startswith" -> "Must start with '" \o v.Param \o "'"
           [] v.Tag = "endswith" -> "Must end with '" \o v.Param \o "'"
           [] OTHER ->
                 "Validation failed on '" \o v.Tag \o "' tag"
                     \o (IF v.Param # "" THEN " (param: " \o v.Param \o ")" ELSE "")

\* type ValidationErrors map[string]ValidationField: [isnil, m]; a nil map reads
\* as an empty one
NoEntries == [p \in {} |-> ValidationField("", "", "")]
NilErrors == [isnil |-> TRUE, m |-> NoEntries]
Errors(m) == [isnil |-> FALSE, m |-> m]

\* ValidationErrors.MsgFor
ErrorsMsgFor(e, fieldName) ==
    IF fieldName \notin DOMAIN e.m THEN "" ELSE Msg(e.m[fieldName])

\* A faulty HasError: a path has an error when it has a message.
ErrorsHasErrorByMessage(e, fieldName) == ErrorsMsgFor(e, fieldName) # ""

\* ValidationErrors.HasError
ErrorsHasError(e, fieldName) == fieldName \in DOMAIN e.m

\* type ValidationError struct { Errors ValidationErrors }
ValidationError(errors) == [Errors |-> errors]

\* ValidationError.MsgFor
MsgFor(v, fieldName) == ErrorsMsgFor(v.Errors, fieldName)

\* ValidationError.HasError
HasError(v, fieldName) == ErrorsHasError(v.Errors, fieldName)

\* ValidationError.IsEmpty
IsEmpty(v) == Cardinality(DOMAIN v.Errors.m) = 0

(***************************************************************************)
(* validation.go: PlaygroundValidator.ParseError.  The error it is given   *)
(* is nil ([kind |-> "nil"]), an error of another type ([kind |-> "error"]) *)
(* or a validator.ValidationErrors, a list of FieldErrors.  The namespace  *)
(* of a FieldError is kept in pieces, each piece either "." or a text of   *)
(* one or more characters with no "." in it.                               *)
(***************************************************************************)
FieldError(namespace, tag, actualTag, param, field) ==
    [Namespace |-> namespace, Tag |-> tag, ActualTag |-> actualTag, Param |-> param,
     Field |-> field]
ValidatorErrors(errs) == [kind |-> "validator", errs |-> errs]

\* the namespace as the string it is
Concat(pieces) == Join(pieces, "")

\* strings.Index(namespace, "."), counted in pieces: 0 exactly when the
\* namespace starts with the dot, -1 when it has none
RECURSIVE IndexOfDotFrom(_, _)
IndexOfDotFrom(namespace, k) ==
    IF k > Len(namespace) THEN -1
    ELSE IF namespace[k] = "." THEN k - 1
    ELSE IndexOfDotFrom(namespace, k + 1)
IndexOfDot(namespace) == IndexOfDotFrom(namespace, 1)

\* validation.go 47-52: the key a failure is stored under
pathOf(namespace) ==
    LET firstDot == IndexOfDot(namespace)
    IN  IF firstDot > 0
        THEN Concat(SubSeq(namespace, firstDot + 2, Len(namespace)))
        ELSE Concat(namespace)

\* A faulty loop: the failure is stored under its whole namespace.
parseFailuresKeepNamespace(errs, valerr) ==
    [p \in { Concat(errs[k].Namespace) : k \in DOMAIN errs } |->
        LET k == CHOOSE k \in DOMAIN errs :
                     /\ Concat(errs[k].Namespace) = p
                     /\ \A o \in DOMAIN errs : Concat(errs[o].Namespace) = p => o <= k
        IN  ValidationField(errs[k].ActualTag, errs[k].Param, errs[k].Field)]

\* validation.go 45-59: the loop over the failures; a later failure replaces
\* an earlier one of the same path
RECURSIVE parseFailures(_, _)
parseFailures(errs, valerr) ==
    IF Len(errs) = 0 THEN valerr
    ELSE parseFailures(Tail(errs),
                       (pathOf(errs[1].Namespace)
                            :> ValidationField(errs[1].ActualTag, errs[1].Param,
                                               errs[1].Field)) @@ valerr)

\* PlaygroundValidator.ParseError
ParseError(err) ==
    IF err.kind = "nil" THEN ValidationError(Errors(NoEntries))
    ELSE IF err.kind # "validator"
    THEN ValidationError(Errors(("_error" :> ValidationField("invalid", "", "_error"))))
    ELSE ValidationError(Errors(parseFailures(err.errs, NoEntries)))

(***************************************************************************)
(* The converter registry: map[reflect.Type]ValueConverter.  A converter   *)
(* is named by an identifier; Convert applies it.                          *)
(***************************************************************************)
\* the converter functions: NewMapper's seven closures, and four a caller
\* registers (the d.String() one of TestMapper_RegisterConverter, a yes/no
\* rendering of a bool, a quoted string, a number with its unit)
Convert(converter, v) ==
    CASE converter = "duration" -> FormatInt(Minutes(v.n))
      [] converter = "time" -> IF TimeIsZero(v) THEN "" ELSE FormatRFC3339(v)
      [] converter = "float64" -> FormatFloat(v.c)
      [] converter = "float32" -> FormatFloat(v.c)
      [] converter = "int" -> FormatInt(v.n)
      [] converter = "int64" -> FormatInt(v.n)
      [] converter = "bool" -> FormatBool(v.b)
      [] converter = "durationString" -> DurationString(v.n)
      [] converter = "yesno" -> IF v.b THEN "yes" ELSE "no"
      [] converter = "quoted" -> "'" \o v.s \o "'"
      [] converter = "units" -> FormatInt(v.n) \o " units"
      [] OTHER -> "custom"

\* NewMapper: the converters it registers
NewMapperConverters ==
    (T_Duration :> "duration") @@ (T_Time :> "time") @@ (T_float64 :> "float64")
        @@ (T_float32 :> "float32") @@ (T_int :> "int") @@ (T_int64 :> "int64")
        @@ (T_bool :> "bool")

\* Mapper.convertValue's switch on v.Kind(), reached when no converter is
\* registered for v.Type() (no interface-typed value occurs in the model)
convertByKind(v) ==
    CASE Kind(v) = "string" -> v.s
      [] Kind(v) \in IntKinds -> FormatInt(v.n)
      [] Kind(v) \in UintKinds -> FormatUint(v.n)
      [] Kind(v) \in FloatKinds -> FormatFloat(v.c)
      [] Kind(v) = "bool" -> FormatBool(v.b)
      [] OTHER -> Sprint(v)

\* A faulty convertValue: the converter is looked up before the zero test.
convertValueConverterFirst(converters, v0) ==
    IF Kind(v0) = "invalid" THEN ""
    ELSE IF Kind(v0) = "ptr" /\ v0.isnil THEN ""
    ELSE LET v == IF Kind(v0) = "ptr" THEN Elem(v0) ELSE v0
         IN  IF v.type \in DOMAIN converters THEN Convert(converters[v.type], v)
             ELSE IF Kind(v) # "bool" /\ IsZero(v) THEN ""
             ELSE convertByKind(v)

\* Mapper.convertValue
convertValue(converters, v0) ==
    IF Kind(v0) = "invalid" THEN ""
    ELSE IF Kind(v0) = "ptr" /\ v0.isnil THEN ""
    ELSE LET v == IF Kind(v0) = "ptr" THEN Elem(v0) ELSE v0
         IN  IF Kind(v) # "bool" /\ IsZero(v) THEN ""
             ELSE IF v.type \in DOMAIN converters THEN Convert(converters[v.type], v)
             ELSE convertByKind(v)

(***************************************************************************)
(* Errors and the trace of a call.                                         *)
(*   error value: [kind |-> "nil"], [kind |-> "error", msg, unwrap] where  *)
(*   unwrap is the chain of messages errors.Unwrap walks, or               *)
(*   [kind |-> "panic", msg] when the call does not return.                *)
(* The walker's steps are recorded as events; pos is the place in the      *)
(* value tree (a sequence of [f |-> field name], [i |-> index] and         *)
(* [deref |-> TRUE] steps), kept beside the path string the code builds.   *)
(***************************************************************************)
Nil == [kind |-> "nil"]
\* errors.New / fmt.Errorf without %w
NewError(msg) == [kind |-> "error", msg |-> msg, unwrap |-> << >>]
\* fmt.Errorf(prefix + "%w", err)
Wrap(prefix, err) ==
    [kind |-> "error", msg |-> prefix \o err.msg, unwrap |-> << err.msg >> \o err.unwrap]
Panic(msg) == [kind |-> "panic", msg |-> msg]

Result(form, err, log) == [form |-> form, err |-> err, log |-> log]

\* reflect.Type.FieldByName / reflect.Value.FieldByName: the index of the field
\* with that name, 0 when there is none
FieldIndex(t, name) ==
    IF \E j \in 1..Len(t.fields) : t.fields[j].name = name
    THEN CHOOSE j \in 1..Len(t.fields) : t.fields[j].name = name
    ELSE 0

\* StructField.IsExported
IsExported(field) == field.pkgPath = ""

\* Value.CanSet of a field of an addressable struct
CanSet(field) == field.pkgPath = ""

\* valueField.IsValid() && valueField.CanSet() then SetString
SetStringField(structVal, name, str) ==
    LET t == Types[structVal.type]
        j == FieldIndex(t, name)
    IN  IF j # 0 /\ CanSet(t.fields[j])
        THEN [structVal EXCEPT !.fields[j] = [type |-> t.fields[j].type, s |-> str]]
        ELSE structVal

(***************************************************************************)
(* The override registry: map[string]FieldMapper.  The FieldMapper         *)
(* functions a caller registers in the model:                              *)
(*   custom  writes Value "custom" and Error valErr.MsgFor(path) into a    *)
(*           form field that is a struct (as TestMapper_RegisterFieldMapper*)
(*           does), and nothing into another kind of field; returns nil    *)
(*   fail    writes nothing and returns the error "boom"                   *)
(* and the closure MapToFormWithOptions builds around a ValueConverter:    *)
(*   [kind |-> "fieldConverter", converter |-> c]                          *)
(***************************************************************************)
FM_custom == [kind |-> "custom"]
FM_fail == [kind |-> "fail"]
FM_fieldConverter(c) == [kind |-> "fieldConverter", converter |-> c]

\* the ValueConverter functions a caller passes in MapOptions.FieldConverters
FieldConvert(c, v) ==
    CASE c = "euro" -> "E" \o FormatFloat(v.c)
      [] c = "special" -> "Special: $" \o FormatFloat(v.c)
      [] OTHER -> "converted"

\* a FieldMapper called: mapper(docField, formField, fieldPath, valErr), giving
\* the form field as the call leaves it and the error it returns
CallFieldMapper(mapper, docField, formField, fieldPath, valErr) ==
    CASE mapper.kind = "fail" -> [form |-> formField, err |-> NewError("boom")]
      [] mapper.kind = "custom" ->
            IF Kind(formField) = "struct"
            THEN [form |-> SetStringField(SetStringField(formField, "Value", "custom"),
                                          "Error", MsgFor(valErr, fieldPath)),
                  err |-> Nil]
            ELSE [form |-> formField, err |-> Nil]
      [] OTHER ->
            \* mapper.go 285-292: FieldByName on a non-struct panics, and so
            \* does SetString on the invalid Value of a missing field
            IF Kind(formField) # "struct"
               \/ FieldIndex(Types[formField.type], "Value") = 0
               \/ FieldIndex(Types[formField.type], "Error") = 0
            THEN [form |-> formField, err |-> Panic("reflect: call of FieldByName/SetString")]
            ELSE [form |-> SetStringField(
                               SetStringField(formField, "Value",
                                              FieldConvert(mapper.converter, docField)),
                               "Error", MsgFor(valErr, fieldPath)),
                  err |-> Nil]

(***************************************************************************)
(* mapper.go: the walker.  m is the Mapper, [converters, fieldMappers].    *)
(* Each operator gives Result(form value as the call leaves it, error,     *)
(* events of the call).                                                    *)
(***************************************************************************)
\* Bind(v, F) is F(v) with v evaluated once: (LAMBDA r : e)(v)
Bind(v, F(_)) == CHOOSE out \in { F(r) : r \in { v } } : TRUE

RECURSIVE mapStructFrom(_, _, _, _, _, _, _)
RECURSIVE mapField(_, _, _, _, _, _, _)
RECURSIVE mapSliceFrom(_, _, _, _, _, _, _)
RECURSIVE mapStruct(_, _, _, _, _, _)

\* A faulty mapFormInputData: the Error is written only when the path has a
\* message, so an old message survives.
mapFormInputDataKeepError(m, docFieldVal, formFieldVal, valErr, fieldPath, pos) ==
    LET value == convertValue(m.converters, docFieldVal)
        error == MsgFor(valErr, fieldPath)
        valueSet == SetStringField(formFieldVal, "Value", value)
        written == IF error = "" THEN valueSet ELSE SetStringField(valueSet, "Error", error)
    IN  Result(written, Nil,
               << [op |-> "mapFormInputData", path |-> fieldPath, pos |-> pos,
                   doc |-> docFieldVal, value |-> value, error |-> error] >>)

\* Mapper.mapFormInputData
mapFormInputData(m, docFieldVal, formFieldVal, valErr, fieldPath, pos) ==
    LET value == convertValue(m.converters, docFieldVal)
        error == MsgFor(valErr, fieldPath)
        written == SetStringField(SetStringField(formFieldVal, "Value", value), "Error", error)
    IN  Result(written, Nil,
               << [op |-> "mapFormInputData", path |-> fieldPath, pos |-> pos,
                   doc |-> docFieldVal, value |-> value, error |-> error] >>)

\* A faulty resize: the form slice is replaced only when it is too short.
resizeSliceGrowOnly(docSlice, formSlice) ==
    IF Len(formSlice.elems) < Len(docSlice.elems)
    THEN [type |-> formSlice.type, isnil |-> FALSE,
          elems |-> [i \in 1..Len(docSlice.elems) |-> Zero(Types[formSlice.type].elem)]]
    ELSE formSlice

\* A faulty resize: the form slice is replaced on every call.
resizeSliceAlways(docSlice, formSlice) ==
    [type |-> formSlice.type, isnil |-> FALSE,
     elems |-> [i \in 1..Len(docSlice.elems) |-> Zero(Types[formSlice.type].elem)]]

\* mapper.go 204-215: the form slice replaced when the lengths differ
resizeSlice(docSlice, formSlice) ==
    IF Len(formSlice.elems) # Len(docSlice.elems)
    THEN LET elemType == Types[formSlice.type].elem
             \* reflect.MakeSlice: every slot the zero value of the element type
             newSlice == [i \in 1..Len(docSlice.elems) |-> Zero(elemType)]
         IN  [type |-> formSlice.type, isnil |-> FALSE,
              elems |-> IF Types[elemType].kind = "struct"
                        THEN [i \in 1..Len(newSlice) |-> Zero(elemType)]
                        ELSE newSlice]
    ELSE formSlice

\* fmt.Sprintf("%s[%d]", fieldPath, i)
indexedPath(fieldPath, i) == fieldPath \o "[" \o FormatInt(i) \o "]"

\* A faulty path: the separator is written at the root too.
fieldPathAlwaysDotted(pathPrefix, fieldName) == pathPrefix \o "." \o fieldName

\* mapper.go 125-128
fieldPathOf(pathPrefix, fieldName) ==
    IF pathPrefix # "" THEN pathPrefix \o "." \o fieldName ELSE fieldName

\* A faulty override call: the "continue" after it is missing, so the field
\* goes on to mapField.
callOverrideNoContinue(m, docFieldVal, formFieldVal, valErr, fieldPath, pos) ==
    Bind(CallFieldMapper(m.fieldMappers[fieldPath], docFieldVal, formFieldVal, fieldPath,
                         valErr),
         LAMBDA c :
            LET called == << [op |-> "mapper", path |-> fieldPath, pos |-> pos,
                              doc |-> docFieldVal, form |-> formFieldVal] >>
            IN  IF c.err.kind # "nil"
                THEN Result(c.form,
                            IF c.err.kind = "error"
                            THEN Wrap("custom mapper for field " \o fieldPath \o " failed: ",
                                      c.err)
                            ELSE c.err,
                            called)
                ELSE Bind(mapField(m, docFieldVal, c.form, valErr, fieldPath,
                                   Field(fieldPath, formFieldVal.type), pos),
                          LAMBDA f : Result(f.form, f.err, called \o f.log)))

\* mapper.go 130-135: the override called and its failure wrapped
callOverride(m, docFieldVal, formFieldVal, valErr, fieldPath, pos) ==
    Bind(CallFieldMapper(m.fieldMappers[fieldPath], docFieldVal, formFieldVal, fieldPath,
                         valErr),
         LAMBDA c :
            Result(c.form,
                   IF c.err.kind = "error"
                   THEN Wrap("custom mapper for field " \o fieldPath \o " failed: ", c.err)
                   ELSE c.err,
                   << [op |-> "mapper", path |-> fieldPath, pos |-> pos,
                       doc |-> docFieldVal, form |-> formFieldVal] >>))

\* mapper.go 137-139: a failure of mapField wrapped
wrapFieldError(r, fieldPath) ==
    Result(r.form,
           IF r.err.kind = "error"
           THEN Wrap("mapping field " \o fieldPath \o " failed: ", r.err)
           ELSE r.err,
           r.log)

\* Mapper.mapStruct
mapStruct(m, docVal, formVal, valErr, pathPrefix, pos) ==
    IF Kind(docVal) # "struct"
    THEN Result(formVal, Panic("reflect: NumField of non-struct type"), << >>)
    ELSE mapStructFrom(m, docVal, formVal, valErr, pathPrefix, pos, 1)

\* Mapper.mapSlice
mapSlice(m, docSlice, formSlice, valErr, fieldPath, pos) ==
    Bind(resizeSlice(docSlice, formSlice),
         LAMBDA resized :
            Bind(mapSliceFrom(m, docSlice, resized, valErr, fieldPath, pos, 0),
                 LAMBDA r :
                    Result(r.form, r.err,
                           (IF Len(formSlice.elems) # Len(docSlice.elems)
                            THEN << [op |-> "MakeSlice", path |-> fieldPath, pos |-> pos,
                                     slots |-> resized.elems] >>
                            ELSE << >>) \o r.log)))

\* A faulty loop: after an element fails the later elements are still mapped,
\* and the first failure is returned at the end.
mapSliceFromKeepGoing(m, docSlice, formSlice, valErr, fieldPath, pos, i) ==
    IF i >= Len(docSlice.elems) THEN Result(formSlice, Nil, << >>)
    ELSE LET docElem == docSlice.elems[i + 1]
             formElem == formSlice.elems[i + 1]
             path == indexedPath(fieldPath, i)
             at == Append(pos, [i |-> i])
         IN  Bind(IF Kind(docElem) = "struct" /\ Kind(formElem) = "struct"
                  THEN mapStruct(m, docElem, formElem, valErr, path, at)
                  ELSE IF Types[formElem.type].name = "FormInputData"
                  THEN mapFormInputData(m, docElem, formElem, valErr, path, at)
                  ELSE Result(formElem, Nil, << >>),
                  LAMBDA r :
                     Bind(mapSliceFrom(m, docSlice,
                                       [formSlice EXCEPT !.elems[i + 1] = r.form],
                                       valErr, fieldPath, pos, i + 1),
                          LAMBDA rest :
                             Result(rest.form,
                                    IF r.err.kind # "nil" THEN r.err ELSE rest.err,
                                    r.log \o rest.log)))

\* mapper.go 217-232: the loop of mapSlice from index i on
mapSliceFrom(m, docSlice, formSlice, valErr, fieldPath, pos, i) ==
    IF i >= Len(docSlice.elems) THEN Result(formSlice, Nil, << >>)
    ELSE LET docElem == docSlice.elems[i + 1]
             formElem == formSlice.elems[i + 1]
             path == indexedPath(fieldPath, i)
             at == Append(pos, [i |-> i])
         IN  Bind(IF Kind(docElem) = "struct" /\ Kind(formElem) = "struct"
                  THEN mapStruct(m, docElem, formElem, valErr, path, at)
                  ELSE IF Types[formElem.type].name = "FormInputData"
                  THEN mapFormInputData(m, docElem, formElem, valErr, path, at)
                  ELSE Result(formElem, Nil, << >>),
                  LAMBDA r :
                     IF r.err.kind # "nil"
                     THEN Result([formSlice EXCEPT !.elems[i + 1] = r.form], r.err, r.log)
                     ELSE Bind(mapSliceFrom(m, docSlice,
                                            [formSlice EXCEPT !.elems[i + 1] = r.form],
                                            valErr, fieldPath, pos, i + 1),
                               LAMBDA rest : Result(rest.form, rest.err, r.log \o rest.log)))

\* mapper.go 103-141: the body of the loop of mapStruct for field i (1-based
\* here); the form of the result is the form record after this field
mapStructField(m, docVal, formVal, valErr, pathPrefix, pos, i) ==
    LET docField == Types[docVal.type].fields[i]
        docFieldVal == docVal.fields[i]
        fieldName == docField.name
    IN  IF ~IsExported(docField) \/ fieldName = "-"
        THEN Result(formVal, Nil, << >>)
        ELSE IF Kind(formVal) # "struct"
        THEN Result(formVal, Panic("reflect: FieldByName of non-struct type"), << >>)
        ELSE LET formType == Types[formVal.type]
                 j == FieldIndex(formType, fieldName)
             IN  IF j = 0 \/ ~CanSet(formType.fields[IF j = 0 THEN 1 ELSE j])
                 THEN Result(formVal, Nil, << >>)
                 ELSE LET formField == formType.fields[j]
                          formFieldVal == formVal.fields[j]
                          fieldPath == fieldPathOf(pathPrefix, fieldName)
                          at == Append(pos, [f |-> fieldName])
                          lookup == << [op |-> "fieldMappers", path |-> fieldPath,
                                        pos |-> at] >>
                      IN  Bind(IF fieldPath \in DOMAIN m.fieldMappers
                               THEN callOverride(m, docFieldVal, formFieldVal, valErr,
                                                 fieldPath, at)
                               ELSE Bind(mapField(m, docFieldVal, formFieldVal, valErr,
                                                  fieldPath, formField, at),
                                         LAMBDA f : wrapFieldError(f, fieldPath)),
                               LAMBDA r :
                                  Result([formVal EXCEPT !.fields[j] = r.form],
                                         r.err, lookup \o r.log))

\* mapper.go 102-142: the loop of mapStruct from field i on; the first field
\* that fails ends it
mapStructFrom(m, docVal, formVal, valErr, pathPrefix, pos, i) ==
    IF i > Len(Types[docVal.type].fields) THEN Result(formVal, Nil, << >>)
    ELSE Bind(mapStructField(m, docVal, formVal, valErr, pathPrefix, pos, i),
              LAMBDA r :
                 IF r.err.kind # "nil" THEN r
                 ELSE Bind(mapStructFrom(m, docVal, r.form, valErr, pathPrefix, pos, i + 1),
                           LAMBDA rest : Result(rest.form, rest.err, r.log \o rest.log)))

\* A faulty pointer case: a nil form pointer is given its target and the call
\* returns at once, so the target is mapped by the next call only.
mapPointerAllocOnly(m, docFieldVal, formFieldVal, valErr, fieldPath, formField, pos) ==
    IF docFieldVal.isnil
    THEN Result(Zero(formFieldVal.type), Nil,
                << [op |-> "Zero", path |-> fieldPath, pos |-> pos] >>)
    ELSE IF formFieldVal.isnil
    THEN Result(Ptr(Zero(Types[formFieldVal.type].elem)), Nil,
                << [op |-> "New", path |-> fieldPath, pos |-> pos,
                    target |-> Zero(Types[formFieldVal.type].elem)] >>)
    ELSE LET at == Append(pos, [deref |-> TRUE])
         IN  Bind(mapField(m, Elem(docFieldVal), Elem(formFieldVal), valErr, fieldPath,
                           formField, at),
                  LAMBDA r :
                     Result([formFieldVal EXCEPT !.target = << r.form >>], r.err,
                            << [op |-> "Elem", path |-> fieldPath, pos |-> at] >>
                                \o r.log))

\* mapper.go 168-179: the pointer case of mapField
mapPointer(m, docFieldVal, formFieldVal, valErr, fieldPath, formField, pos) ==
    IF docFieldVal.isnil
    THEN Result(Zero(formFieldVal.type), Nil,
                << [op |-> "Zero", path |-> fieldPath, pos |-> pos] >>)
    ELSE LET alloc == IF formFieldVal.isnil
                      THEN Ptr(Zero(Types[formFieldVal.type].elem))
                      ELSE formFieldVal
             new == IF formFieldVal.isnil
                    THEN << [op |-> "New", path |-> fieldPath, pos |-> pos,
                             target |-> Elem(alloc)] >>
                    ELSE << >>
             at == Append(pos, [deref |-> TRUE])
         IN  Bind(mapField(m, Elem(docFieldVal), Elem(alloc), valErr, fieldPath,
                           formField, at),
                  LAMBDA r :
                     Result([alloc EXCEPT !.target = << r.form >>], r.err,
                            new \o << [op |-> "Elem", path |-> fieldPath, pos |-> at] >>
                                \o r.log))

\* A faulty mapField: a pair of kinds it cannot map is an error.
mapFieldStrict(m, docFieldVal, formFieldVal, valErr, fieldPath, formField, pos) ==
    IF Types[formField.type].name = "FormInputData"
    THEN mapFormInputData(m, docFieldVal, formFieldVal, valErr, fieldPath, pos)
    ELSE IF Kind(docFieldVal) = "slice" /\ Kind(formFieldVal) = "slice"
    THEN mapSlice(m, docFieldVal, formFieldVal, valErr, fieldPath, pos)
    ELSE IF Kind(docFieldVal) = "struct" /\ Kind(formFieldVal) = "struct"
    THEN mapStruct(m, docFieldVal, formFieldVal, valErr, fieldPath, pos)
    ELSE IF Kind(docFieldVal) = "ptr" /\ Kind(formFieldVal) = "ptr"
    THEN mapPointer(m, docFieldVal, formFieldVal, valErr, fieldPath, formField, pos)
    ELSE Result(formFieldVal, NewError("cannot map " \o fieldPath), << >>)

\* Mapper.mapField; formField is the reflect.StructField of the form record's
\* field, passed on unchanged by the pointer case
mapField(m, docFieldVal, formFieldVal, valErr, fieldPath, formField, pos) ==
    IF Types[formField.type].name = "FormInputData"
    THEN mapFormInputData(m, docFieldVal, formFieldVal, valErr, fieldPath, pos)
    ELSE IF Kind(docFieldVal) = "slice" /\ Kind(formFieldVal) = "slice"
    THEN mapSlice(m, docFieldVal, formFieldVal, valErr, fieldPath, pos)
    ELSE IF Kind(docFieldVal) = "struct" /\ Kind(formFieldVal) = "struct"
    THEN mapStruct(m, docFieldVal, formFieldVal, valErr, fieldPath, pos)
    ELSE IF Kind(docFieldVal) = "ptr" /\ Kind(formFieldVal) = "ptr"
    THEN mapPointer(m, docFieldVal, formFieldVal, valErr, fieldPath, formField, pos)
    ELSE Result(formFieldVal, Nil, << >>)

\* A faulty MapToForm: only doc is tested for nil, and formVal.Elem() of a nil
\* formData is the invalid Value, whose Type() panics.
MapToFormCallDocNilOnly(m, docArg, valErr0, formArg) ==
    LET valErr == IF valErr0.Errors.isnil THEN ValidationError(Errors(NoEntries))
                  ELSE valErr0
    IN  IF Kind(docArg) # "ptr" \/ Kind(formArg) # "ptr"
        THEN Result(formArg, NewError("doc and formData must be pointers"), << >>)
        ELSE IF docArg.isnil
        THEN Result(formArg, NewError("doc and formData cannot be nil"), << >>)
        ELSE IF formArg.isnil
        THEN Result(formArg, Panic("reflect: call of reflect.Value.Type on zero Value"),
                    << >>)
        ELSE Bind(mapStruct(m, Elem(docArg), Elem(formArg), valErr, "", << >>),
                  LAMBDA r : Result([formArg EXCEPT !.target = << r.form >>], r.err, r.log))

\* Mapper.MapToForm, on the reflect.Values of its doc and formData arguments;
\* the form of the result is the formData argument as the call leaves it
MapToFormCall(m, docArg, valErr0, formArg) ==
    LET valErr == IF valErr0.Errors.isnil THEN ValidationError(Errors(NoEntries))
                  ELSE valErr0
    IN  IF Kind(docArg) # "ptr" \/ Kind(formArg) # "ptr"
        THEN Result(formArg, NewError("doc and formData must be pointers"), << >>)
        ELSE IF docArg.isnil \/ formArg.isnil
        THEN Result(formArg, NewError("doc and formData cannot be nil"), << >>)
        ELSE Bind(mapStruct(m, Elem(docArg), Elem(formArg), valErr, "", << >>),
                  LAMBDA r : Result([formArg EXCEPT !.target = << r.form >>], r.err, r.log))

\* v.FieldByName(name) of a struct value that has the field
Get(v, name) == v.fields[FieldIndex(Types[v.type], name)]

\* v.FieldByName(name) where v may be Invalid or lack the field
At(v, name) ==
    IF Kind(v) = "struct" /\ FieldIndex(Types[v.type], name) # 0 THEN Get(v, name) ELSE Invalid

(***************************************************************************)
(* The values a run starts from.                                           *)
(***************************************************************************)
Metadata(version, author) == Struct(T_TestMetadata, << StrV(version), StrV(author) >>)
Item(i) == Struct(T_TestItem, << StrV("item" \o FormatInt(i)), FloatV(1050 + 1025 * i) >>)
Tag(i) == StrV(IF i = 1 THEN "" ELSE "tag" \o FormatInt(i))

\* the domain records: three settings of the scalar and pointer fields, by
\* every length 0..MaxLen of the two slices
Document(variant, n) ==
    LET tags == IF n = 0 THEN NilSlice(T_string)
                ELSE Slice(T_string, [i \in 1..n |-> Tag(i - 1)])
        items == IF n = 0 THEN NilSlice(T_TestItem)
                 ELSE Slice(T_TestItem, [i \in 1..n |-> Item(i - 1)])
    IN  CASE variant = 1 ->
                \* the zero document of TestMapper_ZeroValues
                Struct(T_TestDocument,
                       << StrV(""), FloatV(0), IntV(0), BoolV(FALSE), TimeV(0, ""),
                          DurationV(0), StrV("s3cret"), IntV(0), StrV(""), tags,
                          Metadata("", ""), items, NilPtr(T_string),
                          NilPtr(T_TestMetadata), NilPtr(T_string) >>)
          [] variant = 2 ->
                \* the document of TestMapper_MapToForm_Basic
                Struct(T_TestDocument,
                       << StrV("Test Product"), FloatV(9999), IntV(10), BoolV(TRUE),
                          TimeV(1, ""), DurationV(5400), StrV("s3cret"), IntV(7),
                          StrV("note"), tags, Metadata("1.0.0", "John Doe"), items,
                          Ptr(StrV("optional value")), Ptr(Metadata("2.0.0", "Jane Doe")),
                          Ptr(StrV("leaf")) >>)
          [] OTHER ->
                Struct(T_TestDocument,
                       << StrV("Jo"), FloatV(-1050), IntV(-3), BoolV(FALSE),
                          TimeV(0, "Local"), DurationV(30), StrV(""), IntV(7),
                          StrV("note"), tags, Metadata("", "Al"), items,
                          Ptr(StrV("")), NilPtr(T_TestMetadata), Ptr(StrV("leaf")) >>)

Documents == { Document(variant, n) : variant \in 1..3, n \in 0..MaxLen }

Stale == FormInputData("old", "old error")
MetadataForm(x) == Struct(T_TestMetadataForm, << x, x, x >>)
ItemForm(x) == Struct(T_TestItemForm, << x, x, x >>)

\* a form filled by an earlier request: every leaf holds old text, the slices
\* have k elements, the pointers are set when k is even
StaleForm(k) ==
    Struct(T_TestFormData,
           << Stale, Stale, Stale, Stale, Stale, Stale,
              Slice(T_FormInputData, [i \in 1..k |-> Stale]),
              Slice(T_FormInputData, [i \in 1..k |-> Stale]),
              MetadataForm(Stale),
              Slice(T_TestItemForm, [i \in 1..k |-> ItemForm(Stale)]),
              Stale,
              IF k % 2 = 0 THEN Ptr(MetadataForm(Stale)) ELSE NilPtr(T_TestMetadataForm),
              IF k % 2 = 0 THEN Ptr(Stale) ELSE NilPtr(T_FormInputData),
              Stale >>)

\* &TestFormData{}, and the stale forms
Forms == { Zero(T_TestFormData) } \cup { StaleForm(k) : k \in 0..MaxLen }

ErrorSets ==
    { NilErrors,
      Errors(("Name" :> ValidationField("required", "", "Name"))
             @@ ("Price" :> ValidationField("gt", "0", "Price"))
             @@ ("Metadata.Version" :> ValidationField("required", "", "Version"))
             @@ ("Items[0].Price" :> ValidationField("gt", "0", "Price"))
             @@ ("Items[1].ItemID" :> ValidationField("required", "", "ItemID"))
             @@ ("Tags[1]" :> ValidationField("min", "3", "Tags[1]"))
             @@ ("NestedPtr.Version" :> ValidationField("required", "", "Version"))
             @@ ("LeafPtr" :> ValidationField("custom_tag", "x", "LeafPtr"))
             @@ ("Version" :> ValidationField("min", "9", "Version"))
             @@ ("Items" :> ValidationField("min", "1", "Items"))) }

(***************************************************************************)
(* The program: one Mapper, the caller's domain record, form record and    *)
(* error set, and the calls the caller makes on the mapper.  The caller    *)
(* registers before its first call, passes options or wrong arguments     *)
(* only in its first call, and stops at the first call that fails.         *)
(***************************************************************************)
VARIABLES
    converters,     \* Mapper.converters
    fieldMappers,   \* Mapper.fieldMappers
    doc,            \* the caller's domain record
    form,           \* the caller's form record
    other,          \* an int variable of the caller
    valErr,         \* the caller's ValidationError
    ret,            \* what the last MapToForm call returned ([kind |-> "none"] before)
    log,            \* the events of the last call
    form0,          \* the form record as it was before the last call
    setup,          \* registrations made so far
    inflight        \* the MapToForm calls running in goroutines of their own

vars ==
    << converters, fieldMappers, doc, form, other, valErr, ret, log, form0, setup,
       inflight >>

Mapper == [converters |-> converters, fieldMappers |-> fieldMappers]

NoMappers == [p \in {} |-> FM_custom]

\* the overrides a caller registers: a path and a FieldMapper
OverrideChoices ==
    { << "Price", FM_custom >>, << "Metadata", FM_custom >>,
      << "Metadata.Version", FM_fail >>, << "Items[0].Price", FM_fail >>,
      << "Items[1].Price", FM_custom >>, << "Tags[0]", FM_custom >>,
      << "Items[1]", FM_custom >>, << "NestedPtr", FM_custom >> }

\* the converters a caller registers
ConverterChoices ==
    { << T_Duration, "durationString" >>, << T_bool, "yesno" >> }

\* the MapOptions a caller passes
NoConverters == [p \in {} |-> "euro"]
MapOptions(fieldConverters, skipFields) ==
    [FieldConverters |-> fieldConverters, SkipFields |-> skipFields]
OptionChoices ==
    { MapOptions(NoConverters, << >>),
      MapOptions(("Price" :> "euro"), << >>),
      MapOptions(("Price" :> "euro"), << "Price", "Name" >>),
      MapOptions(("Price" :> "euro") @@ ("Items[0].Price" :> "special"), << >>) }

\* what a caller passes as doc or formData: a pointer to its record, nil, the
\* record itself, a nil pointer, a pointer to its int variable
ArgKinds == { "ptr", "nil", "value", "nilptr", "ptrToInt" }
\* the (doc, formData) pairs the caller passes: at most one of them wrong, or
\* both wrong in two ways
ArgPairs ==
    { << d, "ptr" >> : d \in ArgKinds } \cup { << "ptr", f >> : f \in ArgKinds }
        \cup { << "nil", "nil" >>, << "value", "nilptr" >>, << "nilptr", "value" >> }
Arg(kind, record) ==
    CASE kind = "ptr" -> Ptr(record)
      [] kind = "nil" -> Invalid
      [] kind = "value" -> record
      [] kind = "nilptr" -> NilPtr(record.type)
      [] OTHER -> Ptr(other)

Init ==
    /\ converters = NewMapperConverters
    /\ fieldMappers = NoMappers
    /\ doc \in Documents
    /\ form \in Forms
    /\ other = IntV(7)
    /\ valErr \in { ValidationError(e) : e \in ErrorSets }
    \* a form filled by an earlier request comes with the errors of this one
    /\ form # Zero(T_TestFormData) => ~valErr.Errors.isnil
    /\ ret = [kind |-> "none"]
    /\ log = << >>
    /\ form0 = form
    /\ setup = 0
    /\ inflight = << >>

\* A faulty RegisterConverter: a type that has a converter keeps it.
RegisterConverterKeepFirst(t, converter) ==
    /\ ret.kind = "none"
    /\ setup < MaxSetup
    /\ converters' = converters @@ (t :> converter)
    /\ setup' = setup + 1
    /\ UNCHANGED << fieldMappers, doc, form, other, valErr, ret, log, form0, inflight >>

\* Mapper.RegisterConverter
RegisterConverter(t, converter) ==
    /\ ret.kind = "none"
    /\ setup < MaxSetup
    /\ converters' = (t :> converter) @@ converters
    /\ setup' = setup + 1
    /\ UNCHANGED << fieldMappers, doc, form, other, valErr, ret, log, form0, inflight >>

\* Mapper.RegisterFieldMapper
RegisterFieldMapper(fieldPath, mapper) ==
    /\ ret.kind = "none"
    /\ setup < MaxSetup
    /\ fieldMappers' = (fieldPath :> mapper) @@ fieldMappers
    /\ setup' = setup + 1
    /\ UNCHANGED << converters, doc, form, other, valErr, ret, log, form0, inflight >>

\* A faulty MapToForm that takes valErr by pointer: the map made for a nil
\* Errors is stored in the caller's struct.
valErrThroughPointer(valErr0) ==
    IF valErr0.Errors.isnil THEN ValidationError(Errors(NoEntries)) ELSE valErr0

\* mapper.go 76, 80-82: valErr is a parameter of struct type, so the map made
\* for a nil Errors is stored in the callee's copy; this is the caller's
\* struct once the call has returned
valErrOfCaller(valErr0) == valErr0

\* the caller's variables after a MapToForm call on mapper m
Called(m, docKind, formKind) ==
    \E r \in { MapToFormCall(m, Arg(docKind, doc), valErr, Arg(formKind, form)) } :
        /\ form' = IF formKind = "ptr" THEN Elem(r.form) ELSE form
        /\ other' = IF formKind = "ptrToInt" THEN Elem(r.form) ELSE other
        /\ ret' = r.err
        /\ log' = r.log
        /\ form0' = form
        /\ valErr' = valErrOfCaller(valErr)
        /\ UNCHANGED << doc, inflight >>

\* Mapper.MapToForm(doc, valErr, formData)
MapToForm(docKind, formKind) ==
    /\ ret.kind \in { "none", "nil" }
    /\ ret.kind = "nil" => docKind = "ptr" /\ formKind = "ptr"
    /\ Called(Mapper, docKind, formKind)
    /\ UNCHANGED << converters, fieldMappers, setup >>

\* A faulty loop: every closure calls the converter of one and the same path
\* (one variable shared by all iterations).
withFieldConvertersSharedVar(mappers, fieldConverters) ==
    [p \in DOMAIN fieldConverters \cup DOMAIN mappers |->
        IF p \in DOMAIN fieldConverters
        THEN FM_fieldConverter(
                 fieldConverters[(CHOOSE q \in DOMAIN fieldConverters : TRUE)])
        ELSE mappers[p]]

\* mapper.go 284-293: the loop of MapToFormWithOptions; each closure calls the
\* converter of its own iteration (the loop variables are per iteration, as
\* TestMapper_MapToFormWithOptions expects)
withFieldConverters(mappers, fieldConverters) ==
    [p \in DOMAIN fieldConverters \cup DOMAIN mappers |->
        IF p \in DOMAIN fieldConverters THEN FM_fieldConverter(fieldConverters[p])
        ELSE mappers[p]]

\* A faulty MapToFormWithOptions: the closures are in the registry for this
\* call only, and the registry is put back before the call returns.
MapToFormWithOptionsScoped(docKind, formKind, opts) ==
    /\ ret.kind = "none"
    /\ setup < MaxSetup \/ DOMAIN opts.FieldConverters = {}
    /\ fieldMappers' = fieldMappers
    /\ setup' = IF DOMAIN opts.FieldConverters = {} THEN setup ELSE setup + 1
    /\ Called([converters |-> converters,
               fieldMappers |-> withFieldConverters(fieldMappers, opts.FieldConverters)],
              docKind, formKind)
    /\ UNCHANGED converters

\* A faulty MapToFormWithOptions: a field of the root record whose name is in
\* opts.SkipFields keeps the value it had before the call.
MapToFormWithOptionsSkipping(docKind, formKind, opts) ==
    /\ ret.kind = "none"
    /\ setup < MaxSetup \/ DOMAIN opts.FieldConverters = {}
    /\ fieldMappers' = withFieldConverters(fieldMappers, opts.FieldConverters)
    /\ setup' = IF DOMAIN opts.FieldConverters = {} THEN setup ELSE setup + 1
    /\ \E r \in { MapToFormCall([converters |-> converters,
                                  fieldMappers |-> fieldMappers'],
                                 Arg(docKind, doc), valErr, Arg(formKind, form)) } :
          /\ form' = IF formKind = "ptr"
                      THEN [Elem(r.form) EXCEPT
                               !.fields =
                                   [j \in DOMAIN @ |->
                                       IF \E k \in DOMAIN opts.SkipFields :
                                             opts.SkipFields[k]
                                                 = Types[form.type].fields[j].name
                                       THEN form.fields[j]
                                       ELSE @[j]]]
                      ELSE form
          /\ other' = other
          /\ ret' = r.err
          /\ log' = r.log
          /\ form0' = form
          /\ valErr' = valErrOfCaller(valErr)
          /\ UNCHANGED << doc, inflight >>
    /\ UNCHANGED converters

\* Mapper.MapToFormWithOptions(doc, valErr, formData, opts)
MapToFormWithOptions(docKind, formKind, opts) ==
    /\ ret.kind = "none"
    /\ setup < MaxSetup \/ DOMAIN opts.FieldConverters = {}
    /\ fieldMappers' = withFieldConverters(fieldMappers, opts.FieldConverters)
    /\ setup' = IF DOMAIN opts.FieldConverters = {} THEN setup ELSE setup + 1
    /\ Called([converters |-> converters, fieldMappers |-> fieldMappers'], docKind, formKind)
    /\ UNCHANGED converters

Next ==
    \/ \E c \in ConverterChoices : RegisterConverter(c[1], c[2])
    \/ \E o \in OverrideChoices : RegisterFieldMapper(o[1], o[2])
    \/ \E a \in ArgPairs : MapToForm(a[1], a[2])
    \/ \E d \in { "ptr", "nil" }, o \in OptionChoices : MapToFormWithOptions(d, "ptr", o)

Spec == Init /\ [][Next]_vars

(***************************************************************************)
(* Two goroutines, each inside MapToForm on the one mapper, each with a    *)
(* domain record, an error set and a form record of its own.  A step is    *)
(* the entry of one call (mapper.go 76-96) or one iteration of the loop of *)
(* mapStruct on its root record (mapper.go 102-142); the steps of the two  *)
(* calls interleave in every order.                                        *)
(***************************************************************************)
Goroutines == { 1, 2 }

\* A faulty MapToForm that registers a closure before it walks, as
\* MapToFormWithOptions does.
mapperOfCallRegistering(m) ==
    [m EXCEPT !.fieldMappers = withFieldConverters(m.fieldMappers, ("Price" :> "euro"))]

\* mapper.go 76-96: MapToForm and the walker it starts read m.converters and
\* m.fieldMappers and assign neither; this is the mapper as the entry of a
\* call leaves it
mapperOfCall(m) == m

\* a call before its entry: the arguments, the form as the call has left it
\* so far, the field of the root record it maps next (0 before the entry) and
\* what it returned ("none" while it runs)
Call(d, e, f) ==
    [doc |-> d, valErr |-> e, form0 |-> f, form |-> f, next |-> 0,
     ret |-> [kind |-> "none"]]

RichErrors == CHOOSE e \in ErrorSets : ~e.isnil

\* the calls a goroutine makes
ConcurrentCalls ==
    { Call(Document(2, 1), ValidationError(RichErrors), StaleForm(1)),
      Call(Document(3, MaxLen), ValidationError(NilErrors), Zero(T_TestFormData)) }

\* the registries the two calls find
ConcurrentOverrides ==
    { NoMappers, ("Price" :> FM_custom), ("Metadata.Version" :> FM_fail) }

ConcInit ==
    /\ converters \in { NewMapperConverters,
                        (T_Duration :> "durationString") @@ NewMapperConverters }
    /\ fieldMappers \in ConcurrentOverrides
    /\ inflight \in [Goroutines -> ConcurrentCalls]
    /\ doc = Document(1, 0)
    /\ form = Zero(T_TestFormData)
    /\ other = IntV(7)
    /\ valErr = ValidationError(NilErrors)
    /\ ret = [kind |-> "none"]
    /\ log = << >>
    /\ form0 = form
    /\ setup = 0

\* mapper.go 76-96: the checks of MapToForm passed (both arguments are non-nil
\* pointers), the nil Errors replaced in the copy, mapStruct entered
Enter(g) ==
    /\ inflight[g].next = 0
    /\ inflight' = [inflight EXCEPT
                       ![g].next = 1,
                       ![g].valErr = IF @.Errors.isnil
                                     THEN ValidationError(Errors(NoEntries)) ELSE @]
    /\ converters' = mapperOfCall(Mapper).converters
    /\ fieldMappers' = mapperOfCall(Mapper).fieldMappers
    /\ UNCHANGED << doc, form, other, valErr, ret, log, form0, setup >>

\* mapper.go 102-142: one iteration of the loop of mapStruct on the root
\* record of call g; the call returns with the first error, or nil after the
\* last field
MapNextField(g) ==
    /\ inflight[g].next > 0
    /\ inflight[g].ret.kind = "none"
    /\ \E r \in { mapStructField(Mapper, inflight[g].doc, inflight[g].form,
                                  inflight[g].valErr, "", << >>, inflight[g].next) } :
          inflight' = [inflight EXCEPT
                          ![g].form = r.form,
                          ![g].next = @ + 1,
                          ![g].ret = IF r.err.kind # "nil" THEN r.err
                                     ELSE IF inflight[g].next
                                               = Len(Types[inflight[g].doc.type].fields)
                                     THEN Nil
                                     ELSE @]
    /\ UNCHANGED << converters, fieldMappers, doc, form, other, valErr, ret, log,
                    form0, setup >>

ConcNext == \E g \in Goroutines : Enter(g) \/ MapNextField(g)

ConcSpec == ConcInit /\ [][ConcNext]_vars

(***************************************************************************)
(* The functions of valerr.go, validation.go and the converter registry    *)
(* called one at a time, as the unit tests call them: log holds the one    *)
(* event of the last call, its arguments and what it returned; valErr is   *)
(* the ValidationError the lookups are made on, replaced by ParseError.    *)
(***************************************************************************)
\* the tags of the switch of Msg (TestValidationField_AllTags)
KnownTags ==
    { "required", "email", "url", "http_url", "gte", "lte", "gt", "lt", "min", "max",
      "len", "eq", "ne", "eqfield", "nefield", "not_blank", "alphanum", "alpha",
      "numeric", "alphanum_with_underscore", "mongodb", "uuid", "oneof", "gtcsfield",
      "gtfield", "ltcsfield", "ltfield", "contains", "startswith", "endswith" }

\* the fields Msg is called on: every known tag, the empty tag and tags Msg
\* does not know, each with and without a parameter
MsgTags == KnownTags \cup { "", "custom_tag", "even", "Required" }
MsgParams == { "", "5", "red green blue", "Password" }
MsgInputs == { ValidationField(t, q, "F") : t \in MsgTags, q \in MsgParams }

\* the error sets the lookups start from: nil, empty, the one of
\* TestValidationErrors_MsgFor with a nested path and an entry of empty tag
LookupErrorSets ==
    { NilErrors, Errors(NoEntries),
      Errors(("name" :> ValidationField("required", "", "name"))
             @@ ("email" :> ValidationField("email", "", "email"))
             @@ ("age" :> ValidationField("gte", "18", "age"))
             @@ ("password" :> ValidationField("min", "8", "password"))
             @@ ("Metadata.Version" :> ValidationField("required", "", "Version"))
             @@ ("blank" :> ValidationField("", "", "blank"))) }

\* the paths looked up: keys, keys in another case, prefixes and extensions
\* of keys, the keys ParseError makes, and paths no set has
LookupPaths ==
    { "name", "Name", "email", "age", "password", "nonexistent", "", "blank",
      "Metadata", "Metadata.Version", "Version", "_error", "Settings.Theme", "Theme",
      "TestUser.Settings.Theme", "Variants[0].Price", "X", ".Field" }

\* the errors ParseError is given: nil, a customError, and failure lists of
\* TestUser and TestProduct, of a type with no name, of a bare variable, of
\* two failures with one path, and an empty list
ParseInputs ==
    { Nil, NewError("some error"),
      ValidatorErrors(<< FieldError(<< "TestUser", ".", "ID" >>,
                                    "required", "required", "", "ID"),
                         FieldError(<< "TestUser", ".", "Age" >>, "lte", "lte", "120", "Age"),
                         FieldError(<< "TestUser", ".", "Settings", ".", "Theme" >>,
                                    "required", "required", "", "Theme") >>),
      ValidatorErrors(<< FieldError(<< "TestProduct", ".", "Variants[0]", ".", "Name" >>,
                                    "required", "required", "", "Name"),
                         FieldError(<< "TestProduct", ".", "Variants[0]", ".", "Price" >>,
                                    "gt", "gt", "0", "Price") >>),
      ValidatorErrors(<< FieldError(<< ".", "Field" >>, "required", "required", "", "Field"),
                         FieldError(<< "Name" >>, "min", "min", "3", "Name"),
                         FieldError(<< >>, "iscolor", "hexcolor|rgb", "", "") >>),
      ValidatorErrors(<< FieldError(<< "A", ".", "X" >>, "min", "min", "1", "X"),
                         FieldError(<< "B", ".", "X" >>, "max", "max", "9", "X") >>),
      ValidatorErrors(<< >>) }

\* the converters a caller registers in these calls: for types with a
\* converter of NewMapper, for a type converted by its kind, and two for one
\* type in turn
UnitConverterChoices ==
    ConverterChoices \cup { << T_string, "quoted" >>, << T_int64, "units" >>,
                            << T_Duration, "units" >> }

\* the values convertValue is called on
UnitConvertInputs ==
    { Zero(t) : t \in { T_string, T_int, T_int64, T_uint, T_float64, T_Duration,
                        T_Time, T_bool, PtrTo(T_string) } }
        \cup { StrV("a"), IntV(-3), Int64V(12), UintV(7), FloatV(1050), BoolV(TRUE),
               DurationV(30), DurationV(59), DurationV(5400), DurationV(5459),
               DurationV(13500), DurationV(-90), TimeV(1, ""), Ptr(StrV("a")) }

UnitInit ==
    /\ converters \in { NewMapperConverters } \cup
                        { (c[1] :> c[2]) @@ NewMapperConverters : c \in UnitConverterChoices }
    /\ fieldMappers = NoMappers
    /\ doc = Document(1, 0)
    /\ form = Zero(T_TestFormData)
    /\ other = IntV(7)
    /\ valErr \in { ValidationError(e) : e \in LookupErrorSets }
    /\ ret = [kind |-> "none"]
    /\ log = << >>
    /\ form0 = form
    /\ setup = 0
    /\ inflight = << >>

\* a test calls ParseError at most once, before the one function it asks for
\* a result
NothingAsked == IF log = << >> THEN TRUE ELSE log[1].op = "ParseError"

\* v.ParseError(err): the caller keeps the result as its valErr
CallParseError(err) ==
    /\ log = << >>
    /\ valErr' = ParseError(err)
    /\ log' = << [op |-> "ParseError", err |-> err] >>
    /\ UNCHANGED << converters, fieldMappers, doc, form, other, ret, form0, setup,
                    inflight >>

\* field.Msg()
CallMsg(field) ==
    /\ NothingAsked
    /\ log' = << [op |-> "Msg", field |-> field, result |-> Msg(field)] >>
    /\ UNCHANGED << converters, fieldMappers, doc, form, other, valErr, ret, form0,
                    setup, inflight >>

\* valErr.MsgFor(fieldName) and valErr.Errors.MsgFor(fieldName)
CallMsgFor(fieldName) ==
    /\ NothingAsked
    /\ log' = << [op |-> "MsgFor", path |-> fieldName,
                  result |-> MsgFor(valErr, fieldName),
                  ofErrors |-> ErrorsMsgFor(valErr.Errors, fieldName)] >>
    /\ UNCHANGED << converters, fieldMappers, doc, form, other, valErr, ret, form0,
                    setup, inflight >>

\* valErr.HasError(fieldName) and valErr.Errors.HasError(fieldName)
CallHasError(fieldName) ==
    /\ NothingAsked
    /\ log' = << [op |-> "HasError", path |-> fieldName,
                  result |-> HasError(valErr, fieldName),
                  ofErrors |-> ErrorsHasError(valErr.Errors, fieldName)] >>
    /\ UNCHANGED << converters, fieldMappers, doc, form, other, valErr, ret, form0,
                    setup, inflight >>

\* m.convertValue(v)
CallConvertValue(v) ==
    /\ NothingAsked
    /\ log' = << [op |-> "convertValue", doc |-> v,
                  value |-> convertValue(converters, v)] >>
    /\ UNCHANGED << converters, fieldMappers, doc, form, other, valErr, ret, form0,
                    setup, inflight >>

UnitNext ==
    \/ \E err \in ParseInputs : CallParseError(err)
    \/ \E field \in MsgInputs : CallMsg(field)
    \/ \E fieldName \in LookupPaths : CallMsgFor(fieldName)
    \/ \E fieldName \in LookupPaths : CallHasError(fieldName)
    \/ \E c \in UnitConverterChoices : RegisterConverter(c[1], c[2])
    \/ \E v \in UnitConvertInputs : CallConvertValue(v)

UnitSpec == UnitInit /\ [][UnitNext]_vars

(***************************************************************************)
(* A request served by a mapper that was set up before it: the overrides   *)
(* of EarlierOverrides were registered then, and setup counts the          *)
(* registrations of this request.  The request calls MapToFormWithOptions  *)
(* or MapToForm first, and MapToForm again after a call that returned nil. *)
(***************************************************************************)
\* the registries the request finds
EarlierOverrides ==
    { NoMappers,
      ("Price" :> FM_custom) @@ ("Metadata" :> FM_custom),
      ("Items[0].Price" :> FM_fail) }

\* the SkipFields lists a caller passes
SkipFieldsChoices ==
    { << >>, << "Price", "Name" >>,
      << "Metadata.Version", "Items[0].Price", "Tags", "Quantity", "NoSuchField" >> }

\* the MapOptions of the request: every FieldConverters of OptionChoices with
\* every SkipFields list
OptionsOfRequest ==
    { MapOptions(o.FieldConverters, skipFields) :
        o \in OptionChoices, skipFields \in SkipFieldsChoices }

OptionsInit ==
    /\ converters = NewMapperConverters
    /\ fieldMappers \in EarlierOverrides
    /\ doc \in Documents
    /\ form \in Forms
    /\ other = IntV(7)
    /\ valErr \in { ValidationError(e) : e \in ErrorSets }
    /\ form # Zero(T_TestFormData) => ~valErr.Errors.isnil
    /\ ret = [kind |-> "none"]
    /\ log = << >>
    /\ form0 = form
    /\ setup = 0
    /\ inflight = << >>

OptionsNext ==
    \/ \E d \in { "ptr", "nil" }, o \in OptionsOfRequest : MapToFormWithOptions(d, "ptr", o)
    \/ MapToForm("ptr", "ptr")

OptionsSpec == OptionsInit /\ [][OptionsNext]_vars

(***************************************************************************)
(* A caller whose domain record holds slices only, of strings, ints, time  *)
(* values and records, and whose form holds a slice of leaves for each.    *)
(* It registers converters and calls MapToForm on pointers to the two      *)
(* records, as the caller of Spec does.                                    *)
(***************************************************************************)
\* the domain record: n elements in every slice; the first time value is the
\* zero instant when zeroFirst
TestEvents(n, zeroFirst) ==
    Struct(T_TestEvents,
           << IF n = 0 THEN NilSlice(T_string)
              ELSE Slice(T_string, [i \in 1..n |-> Tag(i - 1)]),
              IF n = 0 THEN NilSlice(T_int)
              ELSE Slice(T_int, [i \in 1..n |-> IntV(i - 1)]),
              IF n = 0 THEN NilSlice(T_Time)
              ELSE Slice(T_Time, [i \in 1..n |->
                                    TimeV(IF zeroFirst THEN i - 1 ELSE i, "")]),
              IF n = 0 THEN NilSlice(T_TestItem)
              ELSE Slice(T_TestItem, [i \in 1..n |-> Item(i - 1)]) >>)

EventDocuments == { TestEvents(n, z) : n \in 0..MaxLen, z \in BOOLEAN }

\* a form of k old leaves in every slice
StaleEventsForm(k) ==
    Struct(T_TestEventsForm,
           [j \in 1..4 |-> Slice(T_FormInputData, [i \in 1..k |-> Stale])])

\* &TestEventsForm{}, and the stale forms
EventForms == { Zero(T_TestEventsForm) } \cup { StaleEventsForm(k) : k \in 0..MaxLen }

EventErrorSets ==
    { NilErrors,
      Errors(("Labels[1]" :> ValidationField("min", "3", "Labels[1]"))
             @@ ("Counts[0]" :> ValidationField("gt", "0", "Counts[0]"))
             @@ ("Dates[0]" :> ValidationField("required", "", "Dates[0]"))
             @@ ("Stops[1]" :> ValidationField("required", "", "Stops[1]"))
             @@ ("Dates" :> ValidationField("min", "1", "Dates"))) }

SliceInit ==
    /\ converters = NewMapperConverters
    /\ fieldMappers = NoMappers
    /\ doc \in EventDocuments
    /\ form \in EventForms
    /\ other = IntV(7)
    /\ valErr \in { ValidationError(e) : e \in EventErrorSets }
    /\ ret = [kind |-> "none"]
    /\ log = << >>
    /\ form0 = form
    /\ setup = 0
    /\ inflight = << >>

SliceNext ==
    \/ \E c \in ConverterChoices : RegisterConverter(c[1], c[2])
    \/ MapToForm("ptr", "ptr")

SliceSpec == SliceInit /\ [][SliceNext]_vars

(***************************************************************************)
(* Reading the two value trees by position, and the rule for paths.        *)
(***************************************************************************)
RECURSIVE LookupFrom(_, _, _)
LookupFrom(v, pos, k) ==
    IF k > Len(pos) THEN v
    ELSE IF "f" \in DOMAIN pos[k] THEN LookupFrom(Get(v, pos[k].f), pos, k + 1)
    ELSE IF "i" \in DOMAIN pos[k] THEN LookupFrom(v.elems[pos[k].i + 1], pos, k + 1)
    ELSE LookupFrom(Elem(v), pos, k + 1)

\* the value at position pos of the tree v
Lookup(v, pos) == LookupFrom(v, pos, 1)

RECURSIVE FoundFrom(_, _, _, _)
FoundFrom(d, f, pos, k) ==
    IF k > Len(pos) THEN f
    ELSE IF "f" \in DOMAIN pos[k]
    THEN FoundFrom(Get(d, pos[k].f), Get(f, pos[k].f), pos, k + 1)
    ELSE IF "i" \in DOMAIN pos[k]
    THEN FoundFrom(d.elems[pos[k].i + 1],
                   IF Len(f.elems) # Len(d.elems) THEN Zero(Types[f.type].elem)
                   ELSE f.elems[pos[k].i + 1],
                   pos, k + 1)
    ELSE FoundFrom(Elem(d), IF f.isnil THEN Zero(Types[f.type].elem) ELSE Elem(f), pos, k + 1)

\* the form value the walker finds at position pos: the one the form held
\* before the call, a zero slot where the slice above it is replaced, a zero
\* target where the pointer above it is nil
Found(pos) == FoundFrom(doc, form0, pos, 1)

RECURSIVE PathTo(_, _)
\* the path of the first k steps of pos: the field name alone at the root,
\* "." and the field name below a record, "[i]" for an element, nothing for a
\* dereference
PathTo(pos, k) ==
    IF k = 0 THEN ""
    ELSE IF "f" \in DOMAIN pos[k]
    THEN IF k = 1 THEN pos[k].f ELSE PathTo(pos, k - 1) \o "." \o pos[k].f
    ELSE IF "i" \in DOMAIN pos[k]
    THEN PathTo(pos, k - 1) \o "[" \o FormatUint(pos[k].i) \o "]"
    ELSE PathTo(pos, k - 1)

PathOf(pos) == PathTo(pos, Len(pos))

IsPrefix(p, q) == Len(p) <= Len(q) /\ SubSeq(q, 1, Len(p)) = p

RECURSIVE RankFrom(_, _, _)
RankFrom(t, pos, k) ==
    IF k > Len(pos) THEN << >>
    ELSE IF "f" \in DOMAIN pos[k]
    THEN LET j == FieldIndex(Types[t], pos[k].f)
         IN  << j >> \o RankFrom(Types[t].fields[j].type, pos, k + 1)
    ELSE IF "i" \in DOMAIN pos[k]
    THEN << pos[k].i >> \o RankFrom(Types[t].elem, pos, k + 1)
    ELSE << 0 >> \o RankFrom(Types[t].elem, pos, k + 1)

\* a position as numbers: the declaration index of each field in the domain
\* type, the index of each element
Rank(pos) == RankFrom(doc.type, pos, 1)

\* a is before b in the traversal: a record, slice or pointer before what is
\* beneath it, then declaration order and index order
Before(a, b) ==
    \/ Len(a) < Len(b) /\ SubSeq(b, 1, Len(a)) = a
    \/ \E k \in 1..Len(a) :
          /\ k <= Len(b)
          /\ SubSeq(a, 1, k - 1) = SubSeq(b, 1, k - 1)
          /\ a[k] < b[k]

Events(op) == { n \in DOMAIN log : log[n].op = op }

Succeeded == ret.kind = "nil"

Value(leaf) == leaf.fields[1].s
Error(leaf) == leaf.fields[2].s
ElemsOf(v, name) == Get(v, name).elems

\* the leaf fields of one record pair: every exported domain field whose
\* same-named form field is declared FormInputData holds the converted
\* domain value and the message of its path
LeavesMapped(docVal, formVal, parentPath) ==
    \A j \in 1..Len(Types[docVal.type].fields) :
        LET docField == Types[docVal.type].fields[j]
            name == docField.name
            path == IF parentPath = "" THEN name ELSE parentPath \o "." \o name
        IN  (/\ IsExported(docField)
             /\ FieldIndex(Types[formVal.type], name) # 0
             /\ Get(formVal, name).type = T_FormInputData)
            => Get(formVal, name)
                   = FormInputData(convertValue(converters, docVal.fields[j]),
                                   MsgFor(valErr, path))

(***************************************************************************)
(* The properties.                                                         *)
(***************************************************************************)

\* C1: after a successful MapToForm with no override registered, every
\* exported domain field whose same-named form field is a FormInputData - at
\* the root, in a nested record, in an element of a slice of records, behind
\* a pointer to a record - has Value = convertValue(domain value) and Error =
\* valErr.MsgFor(its path), whatever the leaf held before the call.
C1_LeafValueAndError ==
    (Succeeded /\ DOMAIN fieldMappers = {}) =>
        /\ LeavesMapped(doc, form, "")
        /\ LeavesMapped(Get(doc, "Metadata"), Get(form, "Metadata"), "Metadata")
        /\ Len(ElemsOf(form, "Items")) = Len(ElemsOf(doc, "Items"))
        /\ \A i \in 1..Len(ElemsOf(doc, "Items")) :
              LeavesMapped(ElemsOf(doc, "Items")[i], ElemsOf(form, "Items")[i],
                           "Items[" \o FormatUint(i - 1) \o "]")
        /\ ~Get(doc, "NestedPtr").isnil =>
              /\ ~Get(form, "NestedPtr").isnil
              /\ LeavesMapped(Elem(Get(doc, "NestedPtr")), Elem(Get(form, "NestedPtr")),
                              "NestedPtr")

\* a form of old text mapped: a leaf with a message, and a leaf whose old
\* message is cleared
C1_Witness ==
    /\ Succeeded /\ DOMAIN fieldMappers = {}
    /\ Get(form0, "Quantity") = FormInputData("old", "old error")
    /\ Get(form, "Quantity") = FormInputData("10", "")
    /\ Get(form, "Name") = FormInputData("Test Product", "This field is required")
    /\ Len(ElemsOf(form, "Items")) = 2
    /\ Get(ElemsOf(form, "Items")[2], "ItemID")
           = FormInputData("item1", "This field is required")

\* the values convertValue is tried on, beside the ones the walker gives it
ConvertInputs ==
    { Zero(t) : t \in { T_string, T_int, T_int64, T_uint, T_float64, T_float32,
                        T_Duration, T_Time, T_TestMetadata, T_bool,
                        SliceOf(T_string), PtrTo(T_string), PtrTo(T_int) } }
        \cup { StrV("a"), IntV(-3), Int64V(12), UintV(7), FloatV(1050), DurationV(90),
               DurationV(30), TimeV(1, ""), TimeV(0, "Local"), BoolV(TRUE),
               Metadata("1", ""), Invalid }

ConvertInputsAndPointers ==
    ConvertInputs \cup { Ptr(v) : v \in { StrV(""), StrV("a"), IntV(0), IntV(5),
                                          Metadata("", ""), Metadata("1", "") } }

\* what C2 says of one value v and the string convertValue gives for it, but
\* for the case of false
ZeroSuppressed(v, str) ==
    /\ (Kind(v) = "ptr" /\ v.isnil) => str = ""
    /\ (Kind(v) = "ptr" /\ ~v.isnil) => str = convertValue(converters, Elem(v))
    /\ (Kind(v) \notin { "bool", "invalid" } /\ IsZero(v)) => str = ""
    /\ (Kind(v) = "ptr" /\ ~v.isnil /\ Kind(Elem(v)) # "bool" /\ IsZero(Elem(v))) => str = ""

\* C2 as stated: "" for every zero value whose kind is not bool, whether or
\* not a converter is registered for its type; "false" for false; "" for a
\* nil pointer; a non-nil pointer unwrapped one level before the zero test.
C2_ZeroSuppressionAndFalse ==
    /\ \A v \in ConvertInputsAndPointers :
          /\ ZeroSuppressed(v, convertValue(converters, v))
          /\ v = BoolV(FALSE) => convertValue(converters, v) = "false"
    /\ \A n \in Events("mapFormInputData") :
          /\ ZeroSuppressed(log[n].doc, log[n].value)
          /\ log[n].doc = BoolV(FALSE) => log[n].value = "false"

\* C2, amended: as above, but false gives "false" when the converter
\* registered for bool is NewMapper's (or there is none); a converter the
\* caller registers for bool is invoked for false and its string returned.
C2_ZeroSuppressionAndFalseByConverter ==
    /\ \A v \in ConvertInputsAndPointers :
          /\ ZeroSuppressed(v, convertValue(converters, v))
          /\ v = BoolV(FALSE) =>
                convertValue(converters, v)
                    = IF T_bool \in DOMAIN converters /\ converters[T_bool] # "bool"
                      THEN Convert(converters[T_bool], v)
                      ELSE "false"
    /\ \A n \in Events("mapFormInputData") :
          /\ ZeroSuppressed(log[n].doc, log[n].value)
          /\ log[n].doc = BoolV(FALSE) =>
                log[n].value
                    = IF T_bool \in DOMAIN converters /\ converters[T_bool] # "bool"
                      THEN Convert(converters[T_bool], log[n].doc)
                      ELSE "false"

\* a zero Duration mapped to "" under the caller's Duration converter, false
\* mapped to "false", a nil pointer and a pointer to "" mapped to ""
C2_Witness ==
    /\ converters[T_Duration] = "durationString"
    /\ \E n \in Events("mapFormInputData") :
          log[n].doc = DurationV(0) /\ log[n].value = ""
    /\ \E n \in Events("mapFormInputData") :
          log[n].doc = BoolV(FALSE) /\ log[n].value = "false"
    /\ \E n \in Events("mapFormInputData") :
          log[n].doc = NilPtr(T_string) /\ log[n].value = ""

\* C3: every path the walker uses for the error lookup and the override
\* lookup is the field name alone at the root, parent + "." + name in a
\* nested record, parent + "[i]" for element i, and the pointer's own path
\* across a dereference; so the message recorded under "Metadata.Version" or
\* "Items[1].ItemID" lands on exactly that leaf.
C3_PathsFollowTheRule ==
    /\ \A n \in DOMAIN log : log[n].path = PathOf(log[n].pos)
    /\ (Succeeded /\ DOMAIN fieldMappers = {} /\ ~valErr.Errors.isnil) =>
          /\ Error(Get(form, "Name")) = "This field is required"
          /\ Error(Get(Get(form, "Metadata"), "Version")) = "This field is required"
          /\ Error(Get(Get(form, "Metadata"), "Author")) = ""
          /\ \A i \in 1..Len(ElemsOf(form, "Items")) :
                /\ Error(Get(ElemsOf(form, "Items")[i], "ItemID"))
                       = IF i = 2 THEN "This field is required" ELSE ""
                /\ Error(Get(ElemsOf(form, "Items")[i], "Price"))
                       = IF i = 1 THEN "Value must be greater than 0" ELSE ""
          /\ \A i \in 1..Len(ElemsOf(form, "Tags")) :
                Error(ElemsOf(form, "Tags")[i])
                    = IF i = 2 THEN "Minimum length is 3" ELSE ""
          /\ ~Get(doc, "NestedPtr").isnil =>
                Error(Get(Elem(Get(form, "NestedPtr")), "Version"))
                    = "This field is required"

\* a lookup made with "Items[1].ItemID", one with "Metadata.Version", one
\* behind the pointer with "NestedPtr.Version"
C3_Witness ==
    /\ Succeeded
    /\ \E n \in Events("fieldMappers") :
          /\ log[n].path = "Items[1].ItemID"
          /\ log[n].pos = << [f |-> "Items"], [i |-> 1], [f |-> "ItemID"] >>
    /\ \E n \in Events("mapFormInputData") :
          log[n].path = "Metadata.Version" /\ log[n].error = "This field is required"
    /\ \E n \in Events("mapFormInputData") : log[n].path = "NestedPtr.Version"
    /\ \E n \in Events("mapFormInputData") : log[n].path = "Tags[1]"

SliceFields == { "Tags", "Items" }

\* C4: after a successful MapToForm every form slice paired with a domain
\* slice has the domain slice's length, whatever its length before; the form
\* slice is replaced exactly when the lengths differ, and every slot of the
\* new slice is the zero value before the first element is mapped.
C4_FormSliceHasDomainLength ==
    /\ Succeeded =>
          \A f \in SliceFields :
             f \notin DOMAIN fieldMappers =>
                /\ Len(ElemsOf(form, f)) = Len(ElemsOf(doc, f))
                /\ Len(ElemsOf(form0, f)) # Len(ElemsOf(doc, f))
                      <=> \E n \in Events("MakeSlice") : log[n].pos = << [f |-> f] >>
    /\ \A n \in Events("MakeSlice") :
          LET docSlice == Lookup(doc, log[n].pos)
              formSlice == Lookup(form0, log[n].pos)
          IN  /\ Len(formSlice.elems) # Len(docSlice.elems)
              /\ Len(log[n].slots) = Len(docSlice.elems)
              /\ \A i \in 1..Len(log[n].slots) :
                    log[n].slots[i] = Zero(Types[formSlice.type].elem)
              /\ \A k \in 1..(n - 1) :
                    ~(IsPrefix(log[n].pos, log[k].pos) /\ log[k].op # "fieldMappers")
    /\ (Succeeded /\ "Items" \notin DOMAIN fieldMappers
          /\ Len(ElemsOf(form0, "Items")) # Len(ElemsOf(doc, "Items"))) =>
          \A i \in 1..Len(ElemsOf(form, "Items")) :
             Get(ElemsOf(form, "Items")[i], "Hint") = FormInputData("", "")

\* a longer form slice of old records cut to the domain's length, and a nil
\* form slice grown to it
C4_Witness ==
    /\ Succeeded
    /\ Len(ElemsOf(doc, "Items")) = 1
    /\ Len(ElemsOf(form0, "Items")) = 2
    /\ Len(ElemsOf(form, "Items")) = 1
    /\ Get(ElemsOf(form0, "Items")[1], "Hint") = FormInputData("old", "old error")
    /\ Get(ElemsOf(form, "Items")[1], "Hint") = FormInputData("", "")
    /\ \E n \in Events("MakeSlice") : log[n].path = "Items" /\ Len(log[n].slots) = 1

PointerFields == { "NestedPtr", "LeafPtr" }

\* the dereferenced pair of pointer field f mapped at f's own path
TargetMapped(f) ==
    LET docTarget == Elem(Get(doc, f))
        formTarget == Elem(Get(form, f))
    IN  IF formTarget.type = T_FormInputData
        THEN formTarget = FormInputData(convertValue(converters, docTarget),
                                        MsgFor(valErr, f))
        ELSE LeavesMapped(docTarget, formTarget, f)

\* C5 as stated: for a domain pointer field paired with a form pointer field,
\* a nil domain pointer leaves the form pointer nil; a non-nil one leaves the
\* form pointer non-nil (a zero target allocated when it was nil, the old
\* target kept when it was not), and the dereferenced pair is mapped at the
\* path of the pointer field.
C5_PointerPairMapped ==
    (Succeeded /\ DOMAIN fieldMappers = {}) =>
        \A f \in PointerFields :
           IF Get(doc, f).isnil
           THEN Get(form, f) = NilPtr(Types[Get(form0, f).type].elem)
           ELSE /\ ~Get(form, f).isnil
                /\ TargetMapped(f)
                /\ f = "NestedPtr" =>
                      Get(Elem(Get(form, f)), "Hint")
                          = IF Get(form0, f).isnil THEN FormInputData("", "")
                            ELSE Get(Elem(Get(form0, f)), "Hint")

\* C6: for every field the walker reaches whose path has an entry in the
\* override registry, the override is invoked exactly once, with the domain
\* field value, the form field value as found and the path; nothing else
\* happens at or beneath the field - no leaf conversion, no resize, no
\* recursion, no pointer handling - and the form field is left as the
\* override wrote it.
C6_OverrideReplacesDefaultHandling ==
    \A n \in Events("fieldMappers") :
        log[n].path \in DOMAIN fieldMappers =>
            LET pos == log[n].pos
                mapper == fieldMappers[log[n].path]
            IN  /\ n < Len(log)
                /\ log[n + 1] = [op |-> "mapper", path |-> log[n].path, pos |-> pos,
                                 doc |-> Lookup(doc, pos), form |-> Found(pos)]
                /\ \A k \in DOMAIN log :
                      k \notin { n, n + 1 } => ~IsPrefix(pos, log[k].pos)
                /\ mapper = FM_fail => Lookup(form, pos) = Found(pos)
                /\ mapper = FM_custom =>
                      Lookup(form, pos)
                          = IF Found(pos).type = T_FormInputData
                            THEN FormInputData("custom", MsgFor(valErr, log[n].path))
                            ELSE Found(pos)
                /\ mapper.kind = "fieldConverter" =>
                      Lookup(form, pos)
                          = FormInputData(FieldConvert(mapper.converter, Lookup(doc, pos)),
                                          MsgFor(valErr, log[n].path))

\* the override of Items[1].Price called in the second element: its text is
\* in the leaf, and the first element's Price is converted as usual
C6_Witness ==
    /\ Succeeded
    /\ fieldMappers = ("Items[1].Price" :> FM_custom)
    /\ Len(ElemsOf(form, "Items")) = 2
    /\ \E n \in Events("mapper") :
          /\ log[n].path = "Items[1].Price"
          /\ log[n].doc = FloatV(2075)
    /\ Get(ElemsOf(form, "Items")[2], "Price") = FormInputData("custom", "")
    /\ Get(ElemsOf(form, "Items")[1], "Price")
           = FormInputData("10.5", "Value must be greater than 0")

\* the slice elements that have an override registered at their own path
OverriddenElements ==
    { pos \in { << [f |-> f], [i |-> i] >> : f \in SliceFields, i \in 0..MaxLen } :
         /\ PathOf(pos) \in DOMAIN fieldMappers
         /\ pos[2].i < Len(ElemsOf(doc, pos[1].f)) }

\* C7 as stated: an override registered at the path of a slice element itself
\* ("Tags[0]", "Items[1]") is looked up before the element is classified and
\* invoked for it in place of the default element mapping.
C7_ElementOverrideInvoked ==
    (Succeeded /\ SliceFields \cap DOMAIN fieldMappers = {}) =>
        \A pos \in OverriddenElements :
            /\ \E n \in Events("mapper") : log[n].pos = pos
            /\ \A n \in DOMAIN log :
                  log[n].op # "mapper" => ~IsPrefix(pos, log[n].pos)

WrongKinds == { "nil", "value", "nilptr" }

\* C8: MapToForm with a doc or a formData that is nil, not a pointer, or a
\* nil pointer returns an error, visits no field, and leaves the form and
\* the domain record as they were.
C8_WrongArgumentsRejected ==
    [][\A a \in ArgPairs :
          ((a[1] \in WrongKinds \/ a[2] \in WrongKinds) /\ MapToForm(a[1], a[2])) =>
              /\ ret'.kind = "error"
              /\ ret'.msg \in { "doc and formData must be pointers",
                                "doc and formData cannot be nil" }
              /\ log' = << >>
              /\ form' = form /\ doc' = doc /\ other' = other]_vars

\* a form of old text after a rejected call
C8_Witness ==
    /\ ret.kind = "error"
    /\ ret.msg = "doc and formData cannot be nil"
    /\ log = << >>
    /\ form = form0
    /\ Get(form, "Name") = FormInputData("old", "old error")

\* C9 as stated: MapToForm with a non-nil pointer to something that is not a
\* record (a pointer to an int), as doc or as formData, returns an error and
\* changes nothing; it does not crash.
C9_NonRecordTargetRejected ==
    [][\A a \in ArgPairs :
          ("ptrToInt" \in { a[1], a[2] } /\ MapToForm(a[1], a[2])) =>
              /\ ret'.kind = "error"
              /\ form' = form /\ doc' = doc /\ other' = other]_vars

\* the places next to the steps of pos that come after them in the
\* traversal: the later fields of each record on the way, the later elements
\* of each slice on the way
LaterSiblings(pos) ==
    UNION { LET parent == SubSeq(pos, 1, d - 1)
                docParent == Lookup(doc, parent)
            IN  IF "f" \in DOMAIN pos[d]
                THEN { Append(parent, [f |-> Types[docParent.type].fields[j].name]) :
                         j \in { j \in 1..Len(Types[docParent.type].fields) :
                                   /\ j > FieldIndex(Types[docParent.type], pos[d].f)
                                   /\ IsExported(Types[docParent.type].fields[j])
                                   /\ FieldIndex(Types[Lookup(form, parent).type],
                                                 Types[docParent.type].fields[j].name) # 0 } }
                ELSE IF "i" \in DOMAIN pos[d]
                THEN { Append(parent, [i |-> i]) :
                         i \in (pos[d].i + 1)..(Len(docParent.elems) - 1) }
                ELSE {}
          : d \in 1..Len(pos) }

OverrideFailed == ret.kind = "error" /\ Len(ret.unwrap) > 0

\* C10: fields are visited in the domain's declaration order and elements in
\* increasing index order; when the override at path p fails, MapToForm
\* returns an error that names p and wraps the override's error, the failed
\* call is the last thing done - every later field and element is as the
\* walker would have found it - and what was written before p stays written.
C10_OrderedAndFailFast ==
    /\ \A n \in 1..(Len(log) - 1) : ~Before(Rank(log[n + 1].pos), Rank(log[n].pos))
    /\ \A n, k \in DOMAIN log :
          (n < k /\ log[n].pos = log[k].pos) => log[n].op # log[k].op
    /\ OverrideFailed =>
          LET last == log[Len(log)]
              causes == << ret.msg >> \o ret.unwrap
          IN  /\ last.op = "mapper"
              /\ fieldMappers[last.path] = FM_fail
              /\ Events("mapper") \ { Len(log) }
                    = { n \in Events("mapper") : fieldMappers[log[n].path] # FM_fail }
              /\ \E c \in DOMAIN causes :
                    causes[c] = "custom mapper for field " \o last.path \o " failed: boom"
              /\ causes[Len(causes)] = "boom"
              /\ Lookup(form, last.pos) = Found(last.pos)
              /\ \A q \in LaterSiblings(last.pos) : Lookup(form, q) = Found(q)
    /\ \A n \in Events("mapFormInputData") :
          Lookup(form, log[n].pos) = FormInputData(log[n].value, log[n].error)

\* the override of Items[0].Price failed: Name and Items[0].ItemID written,
\* Items[1] still the zero slot, OptionalPtr still the old text
C10_Witness ==
    /\ OverrideFailed
    /\ ret.msg = "mapping field Items failed: custom mapper for field Items[0].Price failed: boom"
    /\ ret.unwrap = << "custom mapper for field Items[0].Price failed: boom", "boom" >>
    /\ Get(form, "Name") = FormInputData("Test Product", "This field is required")
    /\ Len(ElemsOf(form, "Items")) = 2
    /\ Get(ElemsOf(form, "Items")[1], "ItemID") = FormInputData("item0", "")
    /\ ElemsOf(form, "Items")[2] = Zero(T_TestItemForm)
    /\ Get(form, "OptionalPtr") = FormInputData("old", "old error")

\* the leaf fields of one record pair whose path is not among paths hold the
\* default conversion and the message of their path
LeavesMappedExcept(docVal, formVal, parentPath, paths) ==
    \A j \in 1..Len(Types[docVal.type].fields) :
        LET docField == Types[docVal.type].fields[j]
            name == docField.name
            path == IF parentPath = "" THEN name ELSE parentPath \o "." \o name
        IN  (/\ IsExported(docField)
             /\ FieldIndex(Types[formVal.type], name) # 0
             /\ Get(formVal, name).type = T_FormInputData
             /\ path \notin paths)
            => Get(formVal, name)
                   = FormInputData(convertValue(converters, docVal.fields[j]),
                                   MsgFor(valErr, path))

\* what a successful MapToFormWithOptions(doc, valErr, formVal, opts) must
\* have left in formVal
FieldConvertersApplied(formVal, opts, noOtherOverrides) ==
    LET paths == DOMAIN opts.FieldConverters
    IN  /\ "Price" \in paths =>
              Get(formVal, "Price")
                  = FormInputData(FieldConvert(opts.FieldConverters["Price"],
                                               Get(doc, "Price")),
                                  MsgFor(valErr, "Price"))
        /\ ("Items[0].Price" \in paths /\ Len(ElemsOf(doc, "Items")) > 0) =>
              Get(ElemsOf(formVal, "Items")[1], "Price")
                  = FormInputData(FieldConvert(opts.FieldConverters["Items[0].Price"],
                                               Get(ElemsOf(doc, "Items")[1], "Price")),
                                  MsgFor(valErr, "Items[0].Price"))
        /\ noOtherOverrides =>
              /\ LeavesMappedExcept(doc, formVal, "", paths)
              /\ LeavesMapped(Get(doc, "Metadata"), Get(formVal, "Metadata"), "Metadata")
              /\ Len(ElemsOf(formVal, "Items")) = Len(ElemsOf(doc, "Items"))
              /\ \A i \in 1..Len(ElemsOf(doc, "Items")) :
                    LeavesMappedExcept(ElemsOf(doc, "Items")[i],
                                       ElemsOf(formVal, "Items")[i],
                                       "Items[" \o FormatUint(i - 1) \o "]", paths)

\* a step in which MapToFormWithOptions(doc, valErr, form, opts) returned nil:
\* the first call on the mapper, which left the closures of opts in the
\* override registry
ReturnedNilWithOptions(opts) ==
    /\ ret.kind = "none"
    /\ ret' = Nil
    /\ converters' = converters
    /\ fieldMappers' = withFieldConverters(fieldMappers, opts.FieldConverters)

\* C11: a successful MapToFormWithOptions leaves, at each path of
\* opts.FieldConverters whose form field is a leaf, Value = that path's own
\* function applied to the domain field value (also for a zero value) and
\* Error = valErr.MsgFor(path); where no other override is registered, every
\* other leaf has the default conversion.
C11_FieldConvertersApplied ==
    [][\A o \in OptionChoices :
          ReturnedNilWithOptions(o)
              => FieldConvertersApplied(form', o, DOMAIN fieldMappers = {})]_vars

\* two converters, each used at its own path, beside default conversions
C11_Witness ==
    /\ Succeeded
    /\ fieldMappers = ("Price" :> FM_fieldConverter("euro"))
                          @@ ("Items[0].Price" :> FM_fieldConverter("special"))
    /\ Get(form, "Price") = FormInputData("E99.99", "Value must be greater than 0")
    /\ Len(ElemsOf(form, "Items")) = 2
    /\ Get(ElemsOf(form, "Items")[1], "Price")
           = FormInputData("Special: $10.5", "Value must be greater than 0")
    /\ Get(ElemsOf(form, "Items")[2], "Price") = FormInputData("20.75", "")
    /\ Get(form, "Quantity") = FormInputData("10", "")

\* MapToForm was called at least once
WasCalled == ret.kind # "none"

\* C13 as stated: every form field with no same-named domain field (Extra,
\* Metadata.Hint, the Hint of each element of Items, the Hint of the target
\* of NestedPtr) holds after MapToForm the value it held before the call.
C13_FormOnlyFieldsKept ==
    WasCalled =>
        /\ Get(form, "Extra") = Get(form0, "Extra")
        /\ Get(Get(form, "Metadata"), "Hint") = Get(Get(form0, "Metadata"), "Hint")
        /\ \A i \in 1..Len(ElemsOf(form0, "Items")) :
              /\ i <= Len(ElemsOf(form, "Items"))
              /\ Get(ElemsOf(form, "Items")[i], "Hint")
                     = Get(ElemsOf(form0, "Items")[i], "Hint")
        /\ ~Get(form0, "NestedPtr").isnil =>
              /\ ~Get(form, "NestedPtr").isnil
              /\ Get(Elem(Get(form, "NestedPtr")), "Hint")
                     = Get(Elem(Get(form0, "NestedPtr")), "Hint")

\* C13, amended: a form field with no same-named domain field keeps its
\* pre-call value wherever the record holding it survives the call: at the
\* root, in a nested record, in the elements of a form slice whose length
\* equals the domain slice's, and in the target of a form pointer whose
\* domain pointer is not nil. A form slice of another length is replaced by
\* zero records and a form pointer is reset to nil under a nil domain
\* pointer, which drops the old values of those fields.
C13_FormOnlyFieldsKeptWhereRecordSurvives ==
    WasCalled =>
        /\ Get(form, "Extra") = Get(form0, "Extra")
        /\ Get(Get(form, "Metadata"), "Hint") = Get(Get(form0, "Metadata"), "Hint")
        /\ Len(ElemsOf(form0, "Items")) = Len(ElemsOf(doc, "Items")) =>
              /\ Len(ElemsOf(form, "Items")) = Len(ElemsOf(form0, "Items"))
              /\ \A i \in 1..Len(ElemsOf(form0, "Items")) :
                    Get(ElemsOf(form, "Items")[i], "Hint")
                        = Get(ElemsOf(form0, "Items")[i], "Hint")
        /\ (\A n \in Events("MakeSlice") : log[n].path # "Items") =>
              \A i \in 1..Len(ElemsOf(form0, "Items")) :
                  /\ i <= Len(ElemsOf(form, "Items"))
                  /\ Get(ElemsOf(form, "Items")[i], "Hint")
                         = Get(ElemsOf(form0, "Items")[i], "Hint")
        /\ (\E n \in Events("MakeSlice") : log[n].path = "Items") =>
              \A i \in 1..Len(ElemsOf(form, "Items")) :
                  Get(ElemsOf(form, "Items")[i], "Hint") = FormInputData("", "")
        /\ (~Get(form0, "NestedPtr").isnil /\ ~Get(doc, "NestedPtr").isnil) =>
              /\ ~Get(form, "NestedPtr").isnil
              /\ Get(Elem(Get(form, "NestedPtr")), "Hint")
                     = Get(Elem(Get(form0, "NestedPtr")), "Hint")
        /\ (Succeeded /\ Get(doc, "NestedPtr").isnil /\ DOMAIN fieldMappers = {}) =>
              Get(form, "NestedPtr").isnil

\* a stale form whose slice and pointer survive: the elements of Items and the
\* target of NestedPtr are mapped and their Hint still holds the old text
C13_Witness ==
    /\ Succeeded
    /\ form0 = StaleForm(2)
    /\ Len(ElemsOf(doc, "Items")) = 2
    /\ ~Get(doc, "NestedPtr").isnil
    /\ Get(ElemsOf(form, "Items")[2], "ItemID") # Stale
    /\ Get(ElemsOf(form, "Items")[2], "Hint") = Stale
    /\ Get(Elem(Get(form, "NestedPtr")), "Version") # Stale
    /\ Get(Elem(Get(form, "NestedPtr")), "Hint") = Stale
    /\ Get(form, "Extra") = Stale

\* a step in which MapToForm returned, with nil or with an error: the
\* registries are as before and ret holds what it returned
MapToFormReturned ==
    /\ ret.kind \in { "none", "nil" }
    /\ ret'.kind # "none"
    /\ converters' = converters
    /\ fieldMappers' = fieldMappers

EventsAt(path) == { n \in DOMAIN log : log[n].path = path }

\* C15: the domain field Notes (a string whose form field is a slice of
\* leaves) and the domain field Internal (no form field of that name) are
\* skipped: a call on valid arguments with no override registered returns
\* nil, the form field Notes is what it was before the call, nothing is done
\* at either path beyond the override lookup, and the fields that follow
\* (Tags, Metadata, Items) are mapped.
C15_MismatchAndMissingSkipped ==
    /\ (DOMAIN fieldMappers = {} /\ log # << >>) => Succeeded
    /\ WasCalled =>
          /\ Get(form, "Notes") = Get(form0, "Notes")
          /\ EventsAt("Internal") = {}
          /\ \A n \in EventsAt("Notes") : log[n].op = "fieldMappers"
    /\ Succeeded =>
          /\ \E n \in EventsAt("Notes") : \E k \in EventsAt("Tags") : n < k
          /\ Len(ElemsOf(form, "Tags")) = Len(ElemsOf(doc, "Tags"))
          /\ DOMAIN fieldMappers = {} =>
                /\ \A i \in 1..Len(ElemsOf(doc, "Tags")) :
                      ElemsOf(form, "Tags")[i]
                          = FormInputData(convertValue(converters, ElemsOf(doc, "Tags")[i]),
                                          MsgFor(valErr, indexedPath("Tags", i - 1)))
                /\ LeavesMapped(Get(doc, "Metadata"), Get(form, "Metadata"), "Metadata")

\* a non-empty Notes met a form slice of two old leaves, which the call left
\* alone while it mapped the tags after it
C15_Witness ==
    /\ Succeeded
    /\ DOMAIN fieldMappers = {}
    /\ Get(doc, "Notes").s # ""
    /\ Get(doc, "Internal") # Zero(T_int)
    /\ Get(form0, "Notes") = Slice(T_FormInputData, [i \in 1..2 |-> Stale])
    /\ Get(form, "Notes") = Get(form0, "Notes")
    /\ Len(ElemsOf(form, "Tags")) = 1
    /\ ElemsOf(form, "Tags")[1] = FormInputData("tag0", "")

\* the result of the call of goroutine g made alone on mapper m
Alone(m, g) ==
    MapToFormCall(m, Ptr(inflight[g].doc), inflight[g].valErr, Ptr(inflight[g].form0))

Asked(op) == IF log = << >> THEN FALSE ELSE log[1].op = op

\* C12: RegisterConverter(T, f) makes convertValue return f(value) for every
\* non-zero value whose exact type is T, whether T had a converter of
\* NewMapper, a converter the caller registered before, or only the
\* conversion by kind; values of every other type, also of a type with the
\* same kind, are converted as before.
C12_RegisteredConverterWins ==
    [][\A c \in UnitConverterChoices :
          RegisterConverter(c[1], c[2]) =>
              \A v \in UnitConvertInputs :
                  /\ (v.type = c[1] /\ ~IsZero(v)) =>
                        convertValue(converters', v) = Convert(c[2], v)
                  /\ (v.type # c[1] /\ v.type # PtrTo(c[1])) =>
                        convertValue(converters', v) = convertValue(converters, v)]_vars

\* a converter registered for time.Duration is used for a duration, in place
\* of the one NewMapper registered, and not for an int64
C12_Witness ==
    /\ setup = 1
    /\ converters[T_Duration] = "units"
    /\ converters[T_int64] = "int64"
    /\ Asked("convertValue")
    /\ log[1].doc = DurationV(5400)
    /\ log[1].value = "5400 units"
    /\ convertValue(converters, Int64V(12)) = "12"

\* the text Msg falls back to for a tag it does not know
Fallback(field) ==
    "Validation failed on '" \o field.Tag \o "' tag"
        \o (IF field.Param # "" THEN " (param: " \o field.Param \o ")" ELSE "")

\* the cases of TestValidationField_Msg the calls reach: tag, param, text
MsgCases ==
    { << "required", "", "This field is required" >>,
      << "email", "", "Invalid email address" >>,
      << "min", "5", "Minimum length is 5" >>,
      << "max", "5", "Maximum length is 5" >>,
      << "gte", "5", "Value must be at least 5" >>,
      << "oneof", "red green blue", "Must be one of: red, green, blue" >>,
      << "eqfield", "Password", "This field must match Password" >>,
      << "url", "", "This field must be a valid URL" >>,
      << "alphanum", "", "Only alphanumeric characters are allowed" >>,
      << "not_blank", "", "This field cannot be empty" >>,
      << "custom_tag", "", "Validation failed on 'custom_tag' tag" >>,
      << "custom_tag", "5", "Validation failed on 'custom_tag' tag (param: 5)" >>,
      << "", "", "" >>,
      << "contains", "5", "Must contain '5'" >>,
      << "startswith", "5", "Must start with '5'" >>,
      << "endswith", "5", "Must end with '5'" >> }

\* C17: Msg gives a result for every field: "" for the empty tag, a text of
\* its own for each known tag (the one the tests expect, never the fallback
\* text), and for every other tag "Validation failed on '<tag>' tag" followed
\* by " (param: <param>)" exactly when Param is not empty; so the result is
\* non-empty for every non-empty tag.
C17_MsgTotal ==
    Asked("Msg") =>
        LET field == log[1].field
            result == log[1].result
        IN  /\ field.Tag = "" => result = ""
            /\ field.Tag # "" => result # ""
            /\ field.Tag \in KnownTags => result # Fallback(field)
            /\ field.Tag \notin KnownTags \cup { "" } => result = Fallback(field)
            /\ \A c \in MsgCases :
                  (field.Tag = c[1] /\ field.Param = c[2]) => result = c[3]

\* an unknown tag with a parameter
C17_Witness ==
    /\ Asked("Msg")
    /\ log[1].field = ValidationField("even", "Password", "F")
    /\ log[1].result = "Validation failed on 'even' tag (param: Password)"

\* C18: HasError(p) is true exactly when p is a key of the error set, MsgFor(p)
\* is the Msg of the entry at p when p is a key and "" otherwise, also on a
\* nil set; a prefix of a key, an extension of a key and a key in another
\* case are not keys; the methods of ValidationError give what the methods of
\* its Errors give.
C18_ExactKeyLookup ==
    LET keys == DOMAIN valErr.Errors.m
        notKeys == { "Name", "Metadata", "Version", "", "nonexistent" }
        testSet == { "name", "email", "age", "password", "Metadata.Version", "blank" }
    IN  /\ Asked("HasError") =>
              /\ log[1].result = (log[1].path \in keys)
              /\ log[1].result = log[1].ofErrors
              /\ valErr.Errors.isnil => log[1].result = FALSE
              /\ (keys = testSet /\ log[1].path \in notKeys) => log[1].result = FALSE
        /\ Asked("MsgFor") =>
              /\ log[1].path \in keys => log[1].result = Msg(valErr.Errors.m[log[1].path])
              /\ log[1].path \notin keys => log[1].result = ""
              /\ log[1].result = log[1].ofErrors
              /\ valErr.Errors.isnil => log[1].result = ""
              /\ (keys = testSet /\ log[1].path \in notKeys) => log[1].result = ""

\* the prefix of a key looked up and not found
C18_Witness ==
    /\ "Metadata.Version" \in DOMAIN valErr.Errors.m
    /\ Asked("HasError")
    /\ log[1].path = "Metadata"
    /\ log[1].result = FALSE

\* the key C19 gives for a namespace: what follows its first dot, or all of
\* it when it has no dot or starts with one
StrippedNamespace(namespace) ==
    LET dots == { k \in DOMAIN namespace : namespace[k] = "." }
    IN  IF dots = {} \/ 1 \in dots THEN Concat(namespace)
        ELSE Concat(SubSeq(namespace, (CHOOSE d \in dots : \A o \in dots : d <= o) + 1,
                           Len(namespace)))

WholeMinutes(secs) ==
    LET a == IF secs < 0 THEN -secs ELSE secs
        q == CHOOSE q \in 0..a : 60 * q <= a /\ a < 60 * (q + 1)
    IN  IF secs < 0 THEN -q ELSE q

\* C20: while the converter NewMapper registered for time.Duration is in
\* place, convertValue gives "" for the zero duration and for every other
\* duration its whole number of minutes in base 10: "90" for 90 minutes, "225"
\* for 3h45m, "0" for a duration under a minute.
C20_DurationInWholeMinutes ==
    (/\ Asked("convertValue")
     /\ log[1].doc.type = T_Duration
     /\ converters[T_Duration] = "duration") =>
        LET secs == log[1].doc.n
            value == log[1].value
        IN  /\ secs = 0 => value = ""
            /\ secs # 0 => value = FormatInt(WholeMinutes(secs))
            /\ secs = 5400 => value = "90"
            /\ secs = 5459 => value = "90"
            /\ secs = 13500 => value = "225"
            /\ secs \in { 30, 59 } => value = "0"

\* 3h45m converted by the converter of NewMapper
C20_Witness ==
    /\ Asked("convertValue")
    /\ converters[T_Duration] = "duration"
    /\ log[1].doc = DurationV(13500)
    /\ log[1].value = "225"

\* the slices of docVal whose same-named form field is a slice of leaves
LeafSlices(docVal, formVal) ==
    { j \in 1..Len(Types[docVal.type].fields) :
        /\ Kind(docVal.fields[j]) = "slice"
        /\ FieldIndex(Types[formVal.type], Types[docVal.type].fields[j].name) # 0
        /\ Get(formVal, Types[docVal.type].fields[j].name).type = SliceOf(T_FormInputData) }

\* element i of the form slice is the leaf of element i of the domain slice
LeafElementsResolved(docSlice, formSlice, parentPath) ==
    /\ Len(formSlice.elems) = Len(docSlice.elems)
    /\ \A i \in 1..Len(docSlice.elems) :
          formSlice.elems[i]
              = FormInputData(convertValue(converters, docSlice.elems[i]),
                              MsgFor(valErr, indexedPath(parentPath, i - 1)))

\* C21 as stated: after a successful MapToForm with no override registered,
\* every element i of a form slice of leaves holds Value =
\* convertValue(domain[i]) and Error = valErr.MsgFor(parent[i]), whatever the
\* kind of the domain element: a string, an int, a time value, a record.
C21_LeafElementsResolved ==
    (Succeeded /\ DOMAIN fieldMappers = {}) =>
        \A j \in LeafSlices(doc, form) :
            LeafElementsResolved(doc.fields[j],
                                 Get(form, Types[doc.type].fields[j].name),
                                 Types[doc.type].fields[j].name)

\* C22: with no override registered, a MapToForm call made after a call that
\* returned nil, with the same domain and error set and on the form that call
\* left, returns nil and leaves the form as it found it: the same leaf values
\* and errors, the same slice lengths, the same nil and non-nil pointers.
C22_SecondRunChangesNothing ==
    [][(ret = Nil /\ DOMAIN fieldMappers = {} /\ MapToFormReturned)
          => (ret' = Nil /\ form' = form)]_vars

\* a second run over a form that the first run filled from old text: nothing
\* is resized or allocated, every leaf is written again with what it held
C22_Witness ==
    /\ Succeeded
    /\ DOMAIN fieldMappers = {}
    /\ form = form0
    /\ Events("MakeSlice") = {} /\ Events("New") = {}
    /\ Cardinality(Events("mapFormInputData")) > 10
    /\ Get(form0, "Name") = FormInputData("Test Product", "This field is required")
    /\ Len(ElemsOf(form0, "Items")) = 2
    /\ ~Get(form0, "NestedPtr").isnil
    /\ Get(form0, "Extra") = Stale

\* the registry after MapToFormWithOptions(.., opts) against the one before:
\* a closure around its own function at every path of opts.FieldConverters,
\* whatever was registered there, every other entry as it was
OptionsRegistered(before, after, opts) ==
    /\ DOMAIN after = DOMAIN before \cup DOMAIN opts.FieldConverters
    /\ \A p \in DOMAIN opts.FieldConverters :
          after[p] = FM_fieldConverter(opts.FieldConverters[p])
    /\ \A p \in DOMAIN before \ DOMAIN opts.FieldConverters : after[p] = before[p]
    /\ (after = before) <=> (DOMAIN opts.FieldConverters = {})

\* the leaves at the paths whose override is a closure of MapToFormWithOptions
\* hold that closure's conversion and the message of the path
ClosuresApplied(registry, formVal) ==
    /\ ("Price" \in DOMAIN registry /\ registry["Price"].kind = "fieldConverter") =>
          Get(formVal, "Price")
              = FormInputData(FieldConvert(registry["Price"].converter, Get(doc, "Price")),
                              MsgFor(valErr, "Price"))
    /\ ("Items[0].Price" \in DOMAIN registry
            /\ registry["Items[0].Price"].kind = "fieldConverter"
            /\ Len(ElemsOf(doc, "Items")) > 0) =>
          Get(ElemsOf(formVal, "Items")[1], "Price")
              = FormInputData(FieldConvert(registry["Items[0].Price"].converter,
                                           Get(ElemsOf(doc, "Items")[1], "Price")),
                              MsgFor(valErr, "Items[0].Price"))

\* C23: a MapToFormWithOptions call, whether it returns nil or fails on a nil
\* doc, leaves the override registry with a closure at every path of
\* opts.FieldConverters (in place of what was registered there) and every
\* other entry as before, so the registry is the one before the call only
\* when FieldConverters is empty; a plain MapToForm made after it finds the
\* same registry and writes the closures' conversions again.
C23_OptionsStayRegistered ==
    [][/\ \A d \in { "ptr", "nil" }, o \in OptionsOfRequest :
             MapToFormWithOptions(d, "ptr", o)
                 => /\ OptionsRegistered(fieldMappers, fieldMappers', o)
                    /\ ret' = Nil => ClosuresApplied(fieldMappers', form')
       /\ (ret = Nil /\ MapToFormReturned)
             => /\ ret' = Nil
                /\ ClosuresApplied(fieldMappers, form')]_vars

\* a plain MapToForm after a MapToFormWithOptions that replaced the override
\* registered at "Price": the closure's conversion is in the form again, the
\* override at "Metadata" is still the earlier one
C23_Witness ==
    /\ Succeeded
    /\ fieldMappers = ("Price" :> FM_fieldConverter("euro")) @@ ("Metadata" :> FM_custom)
    /\ form0 = form
    /\ Events("MakeSlice") = {}
    /\ \E n \in Events("mapper") : log[n].path = "Price"
    /\ Get(form, "Price") = FormInputData("E99.99", "Value must be greater than 0")

\* the fields of the root record named in opts.SkipFields are mapped like any
\* other: by the closure of opts, or by default where no override is registered
SkipFieldsStillMapped(registry, formVal, opts) ==
    \A k \in DOMAIN opts.SkipFields :
        LET p == opts.SkipFields[k]
        IN  (/\ FieldIndex(Types[doc.type], p) # 0
             /\ FieldIndex(Types[formVal.type], p) # 0
             /\ Get(formVal, p).type = T_FormInputData)
            => IF p \in DOMAIN opts.FieldConverters
               THEN Get(formVal, p)
                        = FormInputData(FieldConvert(opts.FieldConverters[p], Get(doc, p)),
                                        MsgFor(valErr, p))
               ELSE p \notin DOMAIN registry
                        => Get(formVal, p)
                               = FormInputData(convertValue(converters, Get(doc, p)),
                                               MsgFor(valErr, p))

\* C24: a MapToFormWithOptions call with any SkipFields list is, step for
\* step, the call with the same FieldConverters and an empty list: the same
\* result, the same final form, the same registry; and after a call that
\* returned nil a root field named in SkipFields holds its mapped value.
C24_SkipFieldsIgnored ==
    [][\A d \in { "ptr", "nil" }, o \in OptionsOfRequest :
          MapToFormWithOptions(d, "ptr", o)
              => /\ MapToFormWithOptions(d, "ptr", MapOptions(o.FieldConverters, << >>))
                 /\ ret' = Nil => SkipFieldsStillMapped(fieldMappers', form', o)]_vars

\* a call that listed Price and Name in SkipFields (its closure is at "Price"
\* with nothing else registered) over a form of old text: both are mapped
C24_Witness ==
    /\ Succeeded
    /\ fieldMappers = ("Price" :> FM_fieldConverter("euro"))
    /\ Get(form0, "Name") = Stale
    /\ Get(form0, "Price") = Stale
    /\ Get(form, "Name") = FormInputData("Test Product", "This field is required")
    /\ Get(form, "Price") = FormInputData("E99.99", "Value must be greater than 0")

\* C25 as stated: every MapToForm call ends by returning, nil or an error,
\* whatever doc and formData are: nil, a record passed by value, a nil
\* pointer, a pointer to a record of any size, a pointer to an int. (Every
\* override and converter of the model returns when it is called on the
\* fields of these records.)
C25_EveryCallReturns ==
    [][MapToFormReturned => ret'.kind \in { "nil", "error" }]_vars
====
